---- MODULE Spec2Model ----
(***************************************************************************)
(* A model of the Voltage bytecode pipeline: BytecodeCompiler              *)
(* (voltage-vm/src/compiler.rs) lowering the AST of voltage-core into the  *)
(* instruction set of VirtualMachine (voltage-vm/src/vm.rs), and the       *)
(* VirtualMachine's dispatch loop, one instruction per step.  Spec drives  *)
(* the compiler and the machine directly; DriverSpec starts from source    *)
(* text, through Lexer (voltage-parser/src/lexer.rs) and Parser            *)
(* (voltage-parser/src/parser.rs), as main does.                           *)
(*                                                                         *)
(* Representation.  RuntimeValue, Bytecode, Expression and Statement are   *)
(* records tagged by their variant name.  Option<T> is a sequence of       *)
(* length 0 (None) or 1 (Some).  Result<T, String> is a record with a      *)
(* BOOLEAN field ok.  A Float is held as an exact fraction n/d (d > 0,     *)
(* lowest terms); the Float constants the model draws are zero and signed  *)
(* powers of two, on which one IEEE-754 operation is exact.  An Integer is *)
(* a two's-complement integer of IntBits bits, standing for i64; what an   *)
(* overflowing +, - or * does depends on the build (overflow_checks).  A   *)
(* source text is the sequence of its characters.                          *)
(***************************************************************************)
EXTENDS Integers, Sequences, FiniteSets, TLC

VARIABLES
    lexer,      \* Lexer { source, tokens }
    parser,     \* Parser { tokens, current }, and whether it has panicked
    parsed,     \* Parser::parse: the statements collected so far, its end, and
                \* the cursor at which its loop's last iteration started
    compiler,   \* BytecodeCompiler { bytecode, constants }
    compiled,   \* the compile call made: its method, input, Result and println! text
    vm,         \* VirtualMachine { bytecode, constants, stack, globals, ip }
    status,     \* where the driver is: "new", "running", "ok", "err", "panic"
    result,     \* what run returned: <<value>> for Ok(value), <<message>> for Err
    stdout,     \* the text run has written to standard output so far
    last,       \* the instruction run last executed, with the state it started in
    overflow_checks  \* the build profile: TRUE for debug (overflow-checks on)

vars == <<lexer, parser, parsed, compiler, compiled, vm, status, result,
          stdout, last, overflow_checks>>

----------------------------------------------------------------------------
(* Bounds of the model *)

\* Integer constants of raw programs are -MaxInt, 0 and MaxInt.
MaxInt == 3
\* A raw program pushes at most MaxLoads constants before its last instruction.
MaxLoads == 2
\* An expression or a statement list has at most MaxArgs direct children.
MaxArgs == 3
\* The integer literals a and b of `let x = a; let y = b;` range over 1..MaxLit.
MaxLit == 3
\* An if statement has at most MaxElifs elif branches.
MaxElifs == 2
\* A format string has at most MaxHoles placeholders.
MaxHoles == 2
\* RuntimeValue::Integer is modelled as a two's-complement integer of IntBits
\* bits (i64 in the source): IntMin..IntMax.
IntBits == 8

----------------------------------------------------------------------------
(* RuntimeValue *)

Integer(i) == [t |-> "Integer", v |-> i]
Float(n, d) == [t |-> "Float", n |-> n, d |-> d]
String(s) == [t |-> "String", s |-> s]
Boolean(b) == [t |-> "Boolean", b |-> b]
Null == [t |-> "Null"]

Abs(i) == IF i < 0 THEN -i ELSE i

RECURSIVE Gcd(_, _)
Gcd(a, b) == IF b = 0 THEN a ELSE Gcd(b, a % b)

\* The f64 with the value n/d, d # 0.
Frac(n, d) ==
    LET g == Gcd(Abs(n), Abs(d))
        s == IF d < 0 THEN -1 ELSE 1
    IN  Float((s * n) \div g, (s * d) \div g)

\* The range of the Integer type and its two's-complement wrap-around.
IntMin == -(2 ^ (IntBits - 1))
IntMax == 2 ^ (IntBits - 1) - 1
InRange(x) == IntMin <= x /\ x <= IntMax
Wrap(x) == ((x - IntMin) % (2 ^ IntBits)) + IntMin

\* i64 `/` and `%`: the quotient truncates toward zero, the remainder takes
\* the sign of the dividend.
TruncDiv(a, b) ==
    LET q == Abs(a) \div Abs(b)
    IN  IF (a < 0) = (b < 0) THEN q ELSE -q

TruncRem(a, b) == a - b * TruncDiv(a, b)

\* f64 arithmetic on fractions.
FloatAdd(a, b) == Frac(a.n * b.d + b.n * a.d, a.d * b.d)
FloatSub(a, b) == Frac(a.n * b.d - b.n * a.d, a.d * b.d)
FloatMul(a, b) == Frac(a.n * b.n, a.d * b.d)
FloatDiv(a, b) == Frac(a.n * b.d, a.d * b.n)
FloatRem(a, b) ==
    FloatSub(a, FloatMul(b, Frac(TruncDiv(a.n * b.d, a.d * b.n), 1)))
FloatLt(a, b) == a.n * b.d < b.n * a.d

\* impl PartialEq for RuntimeValue.  (a - b).abs() < f64::EPSILON: two
\* fractions with denominators below 2^26 differ by 0 or by more than 2^-52.
ValueEq(a, b) ==
    CASE a.t = "Integer" /\ b.t = "Integer" -> a.v = b.v
      [] a.t = "Float" /\ b.t = "Float" -> Abs(a.n * b.d - b.n * a.d) = 0
      [] a.t = "String" /\ b.t = "String" -> a.s = b.s
      [] a.t = "Boolean" /\ b.t = "Boolean" -> a.b = b.b
      [] a.t = "Function" /\ b.t = "Function" -> a.name = b.name
      [] a.t = "Null" /\ b.t = "Null" -> TRUE
      [] OTHER -> FALSE

\* The decimal digits of r/d, 0 <= r < d, d a power of two.
RECURSIVE FracDigits(_, _)
FracDigits(r, d) ==
    IF r = 0 THEN ""
    ELSE ToString((r * 10) \div d) \o FracDigits((r * 10) % d, d)

\* f64::to_string: no fractional part is written for a whole number.
FloatToString(f) ==
    LET whole == Abs(f.n) \div f.d
        rest == Abs(f.n) % f.d
    IN  (IF f.n < 0 THEN "-" ELSE "") \o ToString(whole)
        \o (IF rest = 0 THEN "" ELSE "." \o FracDigits(rest, f.d))

value_to_string(value) ==
    CASE value.t = "Integer" -> ToString(value.v)
      [] value.t = "Float" -> FloatToString(value)
      [] value.t = "String" -> value.s
      [] value.t = "Boolean" -> IF value.b THEN "true" ELSE "false"
      [] value.t = "Function" -> "<function " \o value.name \o ">"
      [] value.t = "Null" -> "null"

\* #[derive(Debug)] on RuntimeValue.
DebugValue(value) ==
    CASE value.t = "Integer" -> "Integer(" \o ToString(value.v) \o ")"
      [] value.t = "Float" ->
            "Float(" \o FloatToString(value)
            \o (IF value.n % value.d = 0 THEN ".0" ELSE "") \o ")"
      [] value.t = "String" -> "String(\"" \o value.s \o "\")"
      [] value.t = "Boolean" ->
            "Boolean(" \o (IF value.b THEN "true" ELSE "false") \o ")"
      [] value.t = "Function" -> "Function { name: \"" \o value.name \o "\" }"
      [] value.t = "Null" -> "Null"

----------------------------------------------------------------------------
(* Bytecode *)

Op(name) == [op |-> name]
OpArg(name, arg) == [op |-> name, arg |-> arg]

ArithmeticOps == {"Add", "Sub", "Mul", "Div", "Mod"}
OrderingOps == {"Lt", "Gt", "Le", "Ge"}
EqualityOps == {"Eq", "Ne"}
BinaryOps == ArithmeticOps \cup OrderingOps \cup EqualityOps

\* #[derive(Debug)] on Bytecode.
DebugInstruction(instruction) ==
    IF instruction.op \in {"Jump", "JumpIfFalse", "JumpIfTrue"}
    THEN instruction.op \o "(" \o ToString(instruction.arg) \o ")"
    ELSE instruction.op

----------------------------------------------------------------------------
(* VirtualMachine *)

\* HashMap<String, RuntimeValue> as a function on the set of its keys.
EmptyGlobals == [name \in {} |-> Null]

VirtualMachineNew ==
    [bytecode |-> <<>>, constants |-> <<>>, stack |-> <<>>,
     globals |-> EmptyGlobals, ip |-> 0]

GlobalsInsert(globals, name, value) ==
    [k \in DOMAIN globals \cup {name} |-> IF k = name THEN value ELSE globals[k]]

load_bytecode(m, bytecode, constants) ==
    [m EXCEPT !.bytecode = bytecode, !.constants = constants, !.ip = 0]

pop_value(stack) ==
    IF Len(stack) = 0
    THEN [ok |-> FALSE, err |-> "Stack underflow", stack |-> stack]
    ELSE [ok |-> TRUE, value |-> stack[Len(stack)],
          stack |-> SubSeq(stack, 1, Len(stack) - 1)]

Ok(value) == [ok |-> TRUE, value |-> value]
Err(message) == [ok |-> FALSE, panic |-> FALSE, err |-> message]
\* The arm panics: "attempt to ... with overflow".
Overflow(message) == [ok |-> FALSE, panic |-> TRUE, err |-> message]

\* a + b, a - b, a * b on i64 with the exact result x: the build panics with
\* overflow checks on, and wraps without them.
Arithmetic(x, verb) ==
    IF InRange(x) THEN Ok(Integer(x))
    ELSE IF overflow_checks
         THEN Overflow("attempt to " \o verb \o " with overflow")
         ELSE Ok(Integer(Wrap(x)))

\* The match (left, right) of each arithmetic and comparison arm of run.
BothInteger(left, right) == left.t = "Integer" /\ right.t = "Integer"
BothFloat(left, right) == left.t = "Float" /\ right.t = "Float"

AddArm(left, right) ==
    CASE BothInteger(left, right) -> Arithmetic(left.v + right.v, "add")
      [] BothFloat(left, right) -> Ok(FloatAdd(left, right))
      [] OTHER -> Err("Type error: Cannot add non-numeric values")

SubArm(left, right) ==
    CASE BothInteger(left, right) -> Arithmetic(left.v - right.v, "subtract")
      [] BothFloat(left, right) -> Ok(FloatSub(left, right))
      [] OTHER -> Err("Type error: Cannot subtract non-numeric values")

MulArm(left, right) ==
    CASE BothInteger(left, right) -> Arithmetic(left.v * right.v, "multiply")
      [] BothFloat(left, right) -> Ok(FloatMul(left, right))
      [] OTHER -> Err("Type error: Cannot multiply non-numeric values")

DivArm(left, right) ==
    CASE BothInteger(left, right) ->
            IF right.v = 0 THEN Err("Division by zero")
            ELSE IF left.v = IntMin /\ right.v = -1
                 THEN Overflow("attempt to divide with overflow")
                 ELSE Ok(Integer(TruncDiv(left.v, right.v)))
      [] BothFloat(left, right) ->
            IF right.n = 0 THEN Err("Division by zero")
            ELSE Ok(FloatDiv(left, right))
      [] OTHER -> Err("Type error: Cannot divide non-numeric values")

\* Mod without the zero check on Float operands: x % 0.0 is NaN, here the
\* fraction 0/0, and is pushed.
ModArmUncheckedFloat(left, right) ==
    CASE BothInteger(left, right) ->
            IF right.v = 0 THEN Err("Modulo by zero")
            ELSE IF left.v = IntMin /\ right.v = -1
                 THEN Overflow("attempt to calculate the remainder with overflow")
                 ELSE Ok(Integer(TruncRem(left.v, right.v)))
      [] BothFloat(left, right) ->
            IF right.n = 0 THEN Ok([t |-> "Float", n |-> 0, d |-> 0])
            ELSE Ok(FloatRem(left, right))
      [] OTHER -> Err("Type error: Cannot perform modulo on non-numeric values")

ModArm(left, right) ==
    CASE BothInteger(left, right) ->
            IF right.v = 0 THEN Err("Modulo by zero")
            ELSE IF left.v = IntMin /\ right.v = -1
                 THEN Overflow("attempt to calculate the remainder with overflow")
                 ELSE Ok(Integer(TruncRem(left.v, right.v)))
      [] BothFloat(left, right) ->
            IF right.n = 0 THEN Err("Modulo by zero")
            ELSE Ok(FloatRem(left, right))
      [] OTHER -> Err("Type error: Cannot perform modulo on non-numeric values")

EqArm(left, right) == Ok(Boolean(ValueEq(left, right)))
NeArm(left, right) == Ok(Boolean(~ValueEq(left, right)))

\* Lt answering false, as Eq does, when the operands are not of one numeric
\* variant.
LtArmLenient(left, right) ==
    CASE BothInteger(left, right) -> Ok(Boolean(left.v < right.v))
      [] BothFloat(left, right) -> Ok(Boolean(FloatLt(left, right)))
      [] OTHER -> Ok(Boolean(FALSE))

LtArm(left, right) ==
    CASE BothInteger(left, right) -> Ok(Boolean(left.v < right.v))
      [] BothFloat(left, right) -> Ok(Boolean(FloatLt(left, right)))
      [] OTHER -> Err("Type error: Cannot compare non-numeric values")

GtArm(left, right) ==
    CASE BothInteger(left, right) -> Ok(Boolean(left.v > right.v))
      [] BothFloat(left, right) -> Ok(Boolean(FloatLt(right, left)))
      [] OTHER -> Err("Type error: Cannot compare non-numeric values")

LeArm(left, right) ==
    CASE BothInteger(left, right) -> Ok(Boolean(left.v <= right.v))
      [] BothFloat(left, right) -> Ok(Boolean(~FloatLt(right, left)))
      [] OTHER -> Err("Type error: Cannot compare non-numeric values")

GeArm(left, right) ==
    CASE BothInteger(left, right) -> Ok(Boolean(left.v >= right.v))
      [] BothFloat(left, right) -> Ok(Boolean(~FloatLt(left, right)))
      [] OTHER -> Err("Type error: Cannot compare non-numeric values")

BinaryArm(op, left, right) ==
    CASE op = "Add" -> AddArm(left, right)
      [] op = "Sub" -> SubArm(left, right)
      [] op = "Mul" -> MulArm(left, right)
      [] op = "Div" -> DivArm(left, right)
      [] op = "Mod" -> ModArm(left, right)
      [] op = "Eq" -> EqArm(left, right)
      [] op = "Ne" -> NeArm(left, right)
      [] op = "Lt" -> LtArm(left, right)
      [] op = "Gt" -> GtArm(left, right)
      [] op = "Le" -> LeArm(left, right)
      [] op = "Ge" -> GeArm(left, right)

\* What one pass through the body of run's loop leaves: the machine, the text
\* written, and how the pass ends: "continue" (next iteration), "err" (return
\* Err(msg)) or "panic".
Proceed(m, out) == [vm |-> m, out |-> out, end |-> "continue", msg |-> ""]
ReturnErr(m, message) == [vm |-> m, out |-> "", end |-> "err", msg |-> message]
Panic(m, message) == [vm |-> m, out |-> "", end |-> "panic", msg |-> message]

WithStack(m, stack) == [m EXCEPT !.stack = stack]

\* let right = self.pop_value()?; let left = self.pop_value()?; match ...
ExecBinary(m, op) ==
    LET right == pop_value(m.stack) IN
    IF ~right.ok THEN ReturnErr(m, right.err)
    ELSE LET left == pop_value(right.stack) IN
         IF ~left.ok THEN ReturnErr(WithStack(m, left.stack), left.err)
         ELSE LET r == BinaryArm(op, left.value, right.value) IN
              IF r.ok THEN Proceed(WithStack(m, Append(left.stack, r.value)), "")
              ELSE IF r.panic THEN Panic(WithStack(m, left.stack), r.err)
              ELSE ReturnErr(WithStack(m, left.stack), r.err)

ExecLoadConst(m, index) ==
    IF index < Len(m.constants)
    THEN Proceed(WithStack(m, Append(m.stack, m.constants[index + 1])), "")
    ELSE Panic(m, "index out of bounds")

\* Bytecode::Print (newline = FALSE) and Bytecode::Puts (newline = TRUE).
ExecPrintPuts(m, newline) ==
    LET value == pop_value(m.stack) IN
    IF ~value.ok THEN ReturnErr(m, value.err)
    ELSE Proceed(WithStack(m, value.stack),
                  value_to_string(value.value) \o (IF newline THEN "\n" ELSE ""))

ExecStoreLocal(m, index) ==
    LET value == pop_value(m.stack) IN
    IF ~value.ok THEN ReturnErr(m, value.err)
    ELSE Proceed(WithStack(m, value.stack),
                  "Storing local var " \o ToString(index) \o ": "
                  \o DebugValue(value.value) \o "\n")

ExecLoadLocal(m, index) ==
    Proceed(m, "Loading local var " \o ToString(index) \o "\n")

\* The "puts" and "print" arms of Bytecode::Call.
CallByName(m, stack, num_args, newline, name) ==
    IF num_args = 1
    THEN LET arg == pop_value(stack) IN
         IF ~arg.ok THEN ReturnErr(WithStack(m, stack), arg.err)
         ELSE Proceed(WithStack(m, Append(arg.stack, Null)),
                       value_to_string(arg.value)
                       \o (IF newline THEN "\n" ELSE ""))
    ELSE ReturnErr(WithStack(m, stack), name \o " expects 1 argument")

ExecCall(m, num_args) ==
    LET func_name_value == pop_value(m.stack) IN
    IF ~func_name_value.ok THEN ReturnErr(m, func_name_value.err)
    ELSE IF func_name_value.value.t = "String"
    THEN LET func_name == func_name_value.value.s IN
         CASE func_name = "puts" ->
                CallByName(m, func_name_value.stack, num_args, TRUE, "puts")
           [] func_name = "print" ->
                CallByName(m, func_name_value.stack, num_args, FALSE, "print")
           [] OTHER ->
                ReturnErr(WithStack(m, func_name_value.stack),
                          "Unknown function: " \o func_name)
    ELSE ReturnErr(WithStack(m, func_name_value.stack),
                   "Function call expects function name as string")

\* CallBuiltin with print behaving as puts: a newline after every value.
ExecCallBuiltinNewline(m, builtin_id) ==
    IF builtin_id \in {0, 1}
    THEN LET arg == pop_value(m.stack) IN
         IF ~arg.ok THEN ReturnErr(m, arg.err)
         ELSE Proceed(WithStack(m, Append(arg.stack, Null)),
                       value_to_string(arg.value) \o "\n")
    ELSE ReturnErr(m, "Unknown builtin function ID: " \o ToString(builtin_id))

ExecCallBuiltin(m, builtin_id) ==
    IF builtin_id \in {0, 1}
    THEN LET arg == pop_value(m.stack) IN
         IF ~arg.ok THEN ReturnErr(m, arg.err)
         ELSE Proceed(WithStack(m, Append(arg.stack, Null)),
                       value_to_string(arg.value)
                       \o (IF builtin_id = 0 THEN "\n" ELSE ""))
    ELSE ReturnErr(m, "Unknown builtin function ID: " \o ToString(builtin_id))

\* A Return that leaves the instruction pointer on itself.
ExecReturnStay(m) ==
    [vm |-> [m EXCEPT !.stack = pop_value(m.stack).stack, !.ip = @ - 1],
     out |-> "", end |-> "continue", msg |-> ""]

\* let _ = self.pop_value().unwrap_or(RuntimeValue::Null);
ExecReturn(m) == Proceed(WithStack(m, pop_value(m.stack).stack), "")

\* self.stack.pop();
ExecPop(m) == Proceed(WithStack(m, pop_value(m.stack).stack), "")

ExecLoadGlobal(m, name) ==
    IF name \in DOMAIN m.globals
    THEN Proceed(WithStack(m, Append(m.stack, m.globals[name])), "")
    ELSE Proceed(WithStack(m, Append(m.stack, Integer(0))), "")

ExecStoreGlobal(m, name) ==
    LET value == pop_value(m.stack) IN
    IF ~value.ok THEN ReturnErr(m, value.err)
    ELSE Proceed([m EXCEPT !.stack = value.stack,
                            !.globals = GlobalsInsert(@, name, value.value)], "")

ExecUnsupported(m, instruction) ==
    ReturnErr(m, "Unsupported instruction: " \o DebugInstruction(instruction))

\* match instruction { ... }, entered with self.ip already advanced.
Execute(m, instruction) ==
    CASE instruction.op = "LoadConst" -> ExecLoadConst(m, instruction.arg)
      [] instruction.op \in BinaryOps -> ExecBinary(m, instruction.op)
      [] instruction.op = "Print" -> ExecPrintPuts(m, FALSE)
      [] instruction.op = "Puts" -> ExecPrintPuts(m, TRUE)
      [] instruction.op = "StoreLocal" -> ExecStoreLocal(m, instruction.arg)
      [] instruction.op = "LoadLocal" -> ExecLoadLocal(m, instruction.arg)
      [] instruction.op = "Call" -> ExecCall(m, instruction.arg)
      [] instruction.op = "CallBuiltin" -> ExecCallBuiltin(m, instruction.arg)
      [] instruction.op = "Return" -> ExecReturn(m)
      [] instruction.op = "Pop" -> ExecPop(m)
      [] instruction.op = "LoadGlobal" -> ExecLoadGlobal(m, instruction.arg)
      [] instruction.op = "StoreGlobal" -> ExecStoreGlobal(m, instruction.arg)
      [] OTHER -> ExecUnsupported(m, instruction)

\* Ok(self.stack.pop().unwrap_or(RuntimeValue::Null))
RunResult(stack) == IF Len(stack) = 0 THEN Null ELSE stack[Len(stack)]

----------------------------------------------------------------------------
(* The AST of voltage-core *)

\* Literal
LitInteger(n) == [t |-> "Integer", v |-> n]
LitFloat(n, d) == [t |-> "Float", n |-> n, d |-> d]
LitString(s) == [t |-> "String", s |-> s]
LitBoolean(b) == [t |-> "Boolean", b |-> b]

\* Expression
Literal(literal) == [kind |-> "Literal", value |-> literal]
Variable(name) == [kind |-> "Variable", name |-> name]
ExprVariableDeclaration(name, value) ==
    [kind |-> "VariableDeclaration", name |-> name, value |-> value]
Binary(left, operator, right) ==
    [kind |-> "Binary", left |-> left, operator |-> operator, right |-> right]
Call(name, arguments) ==
    [kind |-> "Call", name |-> name, arguments |-> arguments]
FormatCall(name, format_string, arguments) ==
    [kind |-> "FormatCall", name |-> name, format_string |-> format_string,
     arguments |-> arguments]
ArrayLiteral(elements) == [kind |-> "ArrayLiteral", elements |-> elements]
ArrayAccess(array, index) ==
    [kind |-> "ArrayAccess", array |-> array, index |-> index]
ArrayAssignment(array, index, value) ==
    [kind |-> "ArrayAssignment", array |-> array, index |-> index,
     value |-> value]
StructDefinition(name) == [kind |-> "StructDefinition", name |-> name]
\* fields: a sequence of <<name, expression>>
StructInitialization(name, fields) ==
    [kind |-> "StructInitialization", name |-> name, fields |-> fields]
StructFieldAccess(object, field) ==
    [kind |-> "StructFieldAccess", object |-> object, field |-> field]
StructFieldAssignment(object, field, value) ==
    [kind |-> "StructFieldAssignment", object |-> object, field |-> field,
     value |-> value]
EnumVariantCreation(enum_name, variant_name, values) ==
    [kind |-> "EnumVariantCreation", enum_name |-> enum_name,
     variant_name |-> variant_name, values |-> values]
EnumMatch(expression) == [kind |-> "EnumMatch", expression |-> expression]

\* Statement
StmtExpression(expr) == [kind |-> "Expression", expr |-> expr]
VariableDeclaration(name, value) ==
    [kind |-> "VariableDeclaration", name |-> name, value |-> value]
Block(statements) == [kind |-> "Block", statements |-> statements]
StmtFunction(func) == [kind |-> "Function", func |-> func]
\* elif_branches: a sequence of <<condition, body>>; else_branch: an Option
If(condition, then_branch, elif_branches, else_branch) ==
    [kind |-> "If", condition |-> condition, then_branch |-> then_branch,
     elif_branches |-> elif_branches, else_branch |-> else_branch]
While(condition, body) ==
    [kind |-> "While", condition |-> condition, body |-> body]
For(variable, iterable, body) ==
    [kind |-> "For", variable |-> variable, iterable |-> iterable,
     body |-> body]
Break == [kind |-> "Break"]
Continue == [kind |-> "Continue"]
UnsafeBlock(statements) == [kind |-> "UnsafeBlock", statements |-> statements]
Import(module_name) == [kind |-> "Import", module_name |-> module_name]
ImportAs(module_name, alias) ==
    [kind |-> "ImportAs", module_name |-> module_name, alias |-> alias]

\* Function { name, parameters, return_type, body }; the compiler reads body only.
Function(name, body) == [name |-> name, body |-> body]

----------------------------------------------------------------------------
(* BytecodeCompiler *)

\* A compiler value carries, beside the two fields of the struct, the text its
\* println! calls wrote (out) and the Result of the call in progress (ok, err).
BytecodeCompilerNew ==
    [bytecode |-> <<>>, constants |-> <<>>, out |-> "", ok |-> TRUE, err |-> ""]

\* self.bytecode.push(instruction)
Emit(c, instruction) == [c EXCEPT !.bytecode = Append(@, instruction)]

\* let index = self.add_constant(value); the index is Len(c.constants) before.
add_constant(c, value) == [c EXCEPT !.constants = Append(@, value)]

\* add_constant(value) followed by push(LoadConst(index)).
EmitConst(c, value) ==
    Emit(add_constant(c, value), OpArg("LoadConst", Len(c.constants)))

Println(c, text) == [c EXCEPT !.out = @ \o text \o "\n"]
Fail(c, message) == [c EXCEPT !.ok = FALSE, !.err = message]

literal_to_runtime_value(literal) ==
    CASE literal.t = "Integer" -> Integer(literal.v)
      [] literal.t = "Float" -> Float(literal.n, literal.d)
      [] literal.t = "String" -> String(literal.s)
      [] literal.t = "Boolean" -> Boolean(literal.b)

BinaryOpcode(operator) ==
    CASE operator = "Add" -> "Add"
      [] operator = "Subtract" -> "Sub"
      [] operator = "Multiply" -> "Mul"
      [] operator = "Divide" -> "Div"
      [] operator = "Modulo" -> "Mod"
      [] operator = "Equal" -> "Eq"
      [] operator = "NotEqual" -> "Ne"
      [] operator = "Less" -> "Lt"
      [] operator = "LessEqual" -> "Le"
      [] operator = "Greater" -> "Gt"
      [] operator = "GreaterEqual" -> "Ge"

\* The name match of Expression::Call, after the arguments are compiled.
CompileCallTarget(c, name, num_args) ==
    CASE name = "print" ->
            IF num_args = 1 THEN Emit(c, OpArg("CallBuiltin", 1))
            ELSE Fail(c, "print function expects 1 argument")
      [] name = "puts" ->
            IF num_args = 1 THEN Emit(c, OpArg("CallBuiltin", 0))
            ELSE Fail(c, "puts function expects 1 argument")
      [] OTHER ->
            Emit(EmitConst(c, String(name)), OpArg("Call", num_args))

\* The name match of Expression::FormatCall, after the arguments are compiled.
CompileFormatTarget(c, name) ==
    CASE name = "puts" -> Emit(c, OpArg("CallBuiltin", 0))
      [] name = "print" -> Emit(c, OpArg("CallBuiltin", 1))
      [] OTHER -> Fail(c, "Unknown function: " \o name)

RECURSIVE compile_expression(_, _)
RECURSIVE compile_expressions(_, _, _)
RECURSIVE compile_fields(_, _, _)

\* for e in exprs { self.compile_expression(e)?; }, from the i-th on
compile_expressions(c, exprs, i) ==
    IF ~c.ok \/ i > Len(exprs) THEN c
    ELSE compile_expressions(compile_expression(c, exprs[i]), exprs, i + 1)

\* for (_, value) in fields { self.compile_expression(value)?; }
compile_fields(c, fields, i) ==
    IF ~c.ok \/ i > Len(fields) THEN c
    ELSE compile_fields(compile_expression(c, fields[i][2]), fields, i + 1)

compile_expression(c, expr) ==
    IF ~c.ok THEN c
    ELSE CASE expr.kind = "Literal" ->
            EmitConst(c, literal_to_runtime_value(expr.value))
      [] expr.kind = "VariableDeclaration" ->
            Fail(c, "VariableDeclaration expression not expected in this context")
      [] expr.kind = "Variable" ->
            Emit(c, OpArg("LoadGlobal", expr.name))
      [] expr.kind = "Binary" ->
            LET l == compile_expression(c, expr.left)
                r == compile_expression(l, expr.right)
            IN  IF r.ok THEN Emit(r, Op(BinaryOpcode(expr.operator))) ELSE r
      [] expr.kind = "Call" ->
            LET a == compile_expressions(c, expr.arguments, 1)
            IN  IF a.ok THEN CompileCallTarget(a, expr.name, Len(expr.arguments))
                ELSE a
      [] expr.kind = "FormatCall" ->
            LET p == Println(c, "Format call: " \o expr.name
                                \o " with format string: " \o expr.format_string
                                \o " and " \o ToString(Len(expr.arguments))
                                \o " args")
                f == add_constant(p, String(expr.format_string))
                a == compile_expressions(f, expr.arguments, 1)
            IN  IF a.ok THEN CompileFormatTarget(a, expr.name) ELSE a
      [] expr.kind = "ArrayLiteral" ->
            LET a == compile_expressions(c, expr.elements, 1)
            IN  IF a.ok
                THEN EmitConst(a, String("array_" \o ToString(Len(expr.elements))))
                ELSE a
      [] expr.kind = "ArrayAccess" ->
            LET a == compile_expression(c, expr.array)
                i == compile_expression(a, expr.index)
            IN  IF i.ok THEN EmitConst(i, Integer(0)) ELSE i
      [] expr.kind = "ArrayAssignment" ->
            LET a == compile_expression(c, expr.array)
                i == compile_expression(a, expr.index)
                v == compile_expression(i, expr.value)
            IN  IF v.ok
                THEN EmitConst(Emit(Emit(Emit(v, Op("Pop")), Op("Pop")), Op("Pop")),
                               Null)
                ELSE v
      [] expr.kind = "StructDefinition" -> EmitConst(c, Null)
      [] expr.kind = "StructInitialization" ->
            LET f == compile_fields(c, expr.fields, 1)
            IN  IF f.ok THEN EmitConst(f, String("struct_instance")) ELSE f
      [] expr.kind = "StructFieldAccess" ->
            LET o == compile_expression(c, expr.object)
            IN  IF o.ok THEN EmitConst(o, String(expr.field)) ELSE o
      [] expr.kind = "StructFieldAssignment" ->
            LET o == compile_expression(c, expr.object)
                v == compile_expression(o, expr.value)
            IN  IF v.ok
                THEN EmitConst(Emit(Emit(v, Op("Pop")), Op("Pop")),
                               String(expr.field))
                ELSE v
      [] expr.kind = "EnumVariantCreation" ->
            LET v == compile_expressions(c, expr.values, 1)
            IN  IF v.ok THEN EmitConst(v, String("enum_" \o expr.variant_name))
                ELSE v
      [] expr.kind = "EnumMatch" -> EmitConst(c, Null)

RECURSIVE compile_statement(_, _)
RECURSIVE compile_statements(_, _, _)
RECURSIVE compile_elif_branches(_, _, _)

\* for stmt in statements { self.compile_statement(stmt)?; }, from the i-th on
compile_statements(c, statements, i) ==
    IF ~c.ok \/ i > Len(statements) THEN c
    ELSE compile_statements(compile_statement(c, statements[i]), statements, i + 1)

\* for (elif_condition, elif_body) in elif_branches { ... }
compile_elif_branches(c, elif_branches, i) ==
    IF ~c.ok \/ i > Len(elif_branches) THEN c
    ELSE compile_elif_branches(
            compile_statements(compile_expression(c, elif_branches[i][1]),
                               elif_branches[i][2], 1),
            elif_branches, i + 1)

compile_statement(c, stmt) ==
    IF ~c.ok THEN c
    ELSE CASE stmt.kind = "Expression" ->
            LET e == compile_expression(c, stmt.expr)
            IN  IF e.ok THEN Emit(e, Op("Pop")) ELSE e
      [] stmt.kind = "VariableDeclaration" ->
            LET e == compile_expression(c, stmt.value)
            IN  IF e.ok
                THEN Println(Emit(e, Op("Pop")),
                             "Compiling variable declaration: " \o stmt.name)
                ELSE e
      [] stmt.kind = "Block" -> compile_statements(c, stmt.statements, 1)
      [] stmt.kind = "Function" -> Fail(c, "Nested functions not implemented yet")
      [] stmt.kind = "If" ->
            LET cond == compile_expression(c, stmt.condition)
                then == compile_statements(cond, stmt.then_branch, 1)
                elifs == compile_elif_branches(then, stmt.elif_branches, 1)
            IN  IF Len(stmt.else_branch) = 1
                THEN compile_statements(elifs, stmt.else_branch[1], 1)
                ELSE elifs
      [] stmt.kind = "While" ->
            compile_statements(compile_expression(c, stmt.condition), stmt.body, 1)
      [] stmt.kind = "For" ->
            compile_statements(compile_expression(c, stmt.iterable), stmt.body, 1)
      [] stmt.kind \in {"Break", "Continue"} -> c
      [] stmt.kind = "UnsafeBlock" -> compile_statements(c, stmt.statements, 1)
      [] stmt.kind = "Import" ->
            Println(c, "Importing module: " \o stmt.module_name)
      [] stmt.kind = "ImportAs" ->
            Println(c, "Importing module: " \o stmt.module_name \o " as "
                       \o stmt.alias)

\* The statements of func.body, then LoadConst(Integer(0)) and Return.
compile_function(c, func) ==
    LET body == compile_statements(c, func.body, 1)
    IN  IF body.ok THEN Emit(EmitConst(body, Integer(0)), Op("Return")) ELSE body

----------------------------------------------------------------------------
(* Lexer (voltage-parser/src/lexer.rs) *)

\* A source text is the sequence of its characters, each a one-character
\* string; Text is the String made of them (lex.slice().to_string()).
RECURSIVE Text(_)
Text(chars) ==
    IF chars = <<>> THEN "" ELSE Head(chars) \o Text(Tail(chars))

Letters ==
    {"a", "b", "c", "d", "e", "f", "g", "h", "i", "j", "k", "l", "m", "n", "o",
     "p", "q", "r", "s", "t", "u", "v", "w", "x", "y", "z", "A", "B", "C", "D",
     "E", "F", "G", "H", "I", "J", "K", "L", "M", "N", "O", "P", "Q", "R", "S",
     "T", "U", "V", "W", "X", "Y", "Z", "_"}
Digits == <<"0", "1", "2", "3", "4", "5", "6", "7", "8", "9">>
IsDigit(c) == \E d \in 1..10 : Digits[d] = c
DigitValue(c) == (CHOOSE d \in 1..10 : Digits[d] = c) - 1
Whitespace == {" ", "\t", "\n", "\f"}

\* enum Token: the unit variants, and Identifier, Number and String with data.
Tok(name) == [tok |-> name]
TokIdentifier(name) == [tok |-> "Identifier", name |-> name]
TokNumber(n) == [tok |-> "Number", n |-> n]
TokString(s) == [tok |-> "String", s |-> s]

\* #[token("fn")] ... #[token("as")]
Keyword(word) ==
    CASE word = "fn" -> Tok("Fn")
      [] word = "let" -> Tok("Let")
      [] word = "if" -> Tok("If")
      [] word = "else" -> Tok("Else")
      [] word = "elif" -> Tok("Elif")
      [] word = "for" -> Tok("For")
      [] word = "while" -> Tok("While")
      [] word = "break" -> Tok("Break")
      [] word = "continue" -> Tok("Continue")
      [] word = "in" -> Tok("In")
      [] word = "unsafe" -> Tok("Unsafe")
      [] word = "import" -> Tok("Import")
      [] word = "as" -> Tok("As")
      [] OTHER -> TokIdentifier(word)

\* The tokens of two characters and of one.
Punctuation2(text) ==
    CASE text = "->" -> <<Tok("Arrow")>>
      [] text = ">=" -> <<Tok("GreaterEqual")>>
      [] text = "<=" -> <<Tok("LessEqual")>>
      [] text = "==" -> <<Tok("Equal")>>
      [] text = "!=" -> <<Tok("NotEqual")>>
      [] text = "::" -> <<Tok("DoubleColon")>>
      [] OTHER -> <<>>

Punctuation1(c) ==
    CASE c = "=" -> <<Tok("Equals")>>
      [] c = ":" -> <<Tok("Colon")>>
      [] c = "(" -> <<Tok("LeftParen")>>
      [] c = ")" -> <<Tok("RightParen")>>
      [] c = "{" -> <<Tok("LeftBrace")>>
      [] c = "}" -> <<Tok("RightBrace")>>
      [] c = ";" -> <<Tok("Semi")>>
      [] c = "," -> <<Tok("Comma")>>
      [] c = ">" -> <<Tok("Greater")>>
      [] c = "<" -> <<Tok("Less")>>
      [] c = "+" -> <<Tok("Plus")>>
      [] c = "-" -> <<Tok("Minus")>>
      [] c = "*" -> <<Tok("Star")>>
      [] c = "/" -> <<Tok("Slash")>>
      [] c = "%" -> <<Tok("Percent")>>
      [] c = "[" -> <<Tok("LeftBracket")>>
      [] c = "]" -> <<Tok("RightBracket")>>
      [] c = "." -> <<Tok("Dot")>>
      [] OTHER -> <<>>

\* RunEnd with the run ended after its first character.
RunEndShort(chars, i, class) == i

\* The last index of the longest run of characters of `class` starting at i.
RECURSIVE RunEnd(_, _, _)
RunEnd(chars, i, class) ==
    IF i < Len(chars) /\ chars[i + 1] \in class
    THEN RunEnd(chars, i + 1, class) ELSE i

\* "([^"\\]|\\.)*": the index of the closing quote of the string whose body
\* starts at i, or 0 when the text ends first.
RECURSIVE StringEnd(_, _)
StringEnd(chars, i) ==
    IF i > Len(chars) THEN 0
    ELSE IF chars[i] = "\"" THEN i
    ELSE IF chars[i] = "\\"
         THEN IF i + 1 > Len(chars) THEN 0 ELSE StringEnd(chars, i + 2)
         ELSE StringEnd(chars, i + 1)

\* [0-9]+ with lex.slice().parse().unwrap_or(0): the value, or 0 when it
\* does not fit the Integer type.
RECURSIVE ParseNumber(_, _)
ParseNumber(chars, acc) ==
    IF chars = <<>> THEN acc
    ELSE LET next == acc * 10 + DigitValue(Head(chars)) IN
         IF next > IntMax THEN 0 ELSE ParseNumber(Tail(chars), next)

\* The lexeme at index i: the index after it and the token it gives, if any.
\* The longest match wins; a character no token starts with is reported on
\* stderr and skipped.
Lexeme(chars, i) ==
    LET c == chars[i]
        two == IF i < Len(chars) THEN Punctuation2(c \o chars[i + 1])
               ELSE <<>>
    IN
    IF c \in Whitespace THEN [next |-> i + 1, tokens |-> <<>>]
    ELSE IF c \in Letters
    THEN LET j == RunEnd(chars, i, Letters \cup {Digits[d] : d \in 1..10})
         IN  [next |-> j + 1,
              tokens |-> <<Keyword(Text(SubSeq(chars, i, j)))>>]
    ELSE IF IsDigit(c)
    THEN LET j == RunEnd(chars, i, {Digits[d] : d \in 1..10})
         IN  [next |-> j + 1,
              tokens |-> <<TokNumber(ParseNumber(SubSeq(chars, i, j), 0))>>]
    ELSE IF c = "\"" /\ StringEnd(chars, i + 1) > 0
    THEN LET j == StringEnd(chars, i + 1)
         IN  [next |-> j + 1,
              tokens |-> <<TokString(Text(SubSeq(chars, i, j)))>>]
    ELSE IF two # <<>> THEN [next |-> i + 2, tokens |-> two]
    ELSE [next |-> i + 1, tokens |-> Punctuation1(c)]

\* Lexer::new: the tokens of the text from index i on.
RECURSIVE LexFrom(_, _)
LexFrom(chars, i) ==
    IF i > Len(chars) THEN <<>>
    ELSE LET lexeme == Lexeme(chars, i)
         IN  lexeme.tokens \o LexFrom(chars, lexeme.next)

LexerNew(source) == [source |-> source, tokens |-> LexFrom(source, 1)]

\* Lexer::tokenize
tokenize(lx) == lx.tokens

----------------------------------------------------------------------------
(* Inputs: the source texts handed to the lexer *)

\* `fn main() { `
FnMainOpen ==
    <<"f", "n", " ", "m", "a", "i", "n", "(", ")", " ", "{", " ">>

\* ` }`
FnMainClose ==
    <<" ", "}">>

InMain(body) == FnMainOpen \o body \o FnMainClose

\* "body"
Quote(body) == <<"\"">> \o body \o <<"\"">>

\* item, item, ..., item
RECURSIVE Joined(_)
Joined(items) ==
    IF items = <<>> THEN <<>>
    ELSE IF Len(items) = 1 THEN items[1]
    ELSE items[1] \o <<",", " ">> \o Joined(Tail(items))

\* name(item, ..., item);
CallText(name, items) == name \o <<"(">> \o Joined(items) \o <<")", ";">>

\* The integer literals 1, ..., n
Numerals(n) == [i \in 1..n |-> <<Digits[i + 1]>>]

\* `puts`
PutsName ==
    <<"p", "u", "t", "s">>
\* `print`
PrintName ==
    <<"p", "r", "i", "n", "t">>
\* `foo`
FooName ==
    <<"f", "o", "o">>

\* v{} k times: a format string with k placeholders
RECURSIVE Holes(_)
Holes(k) == IF k = 0 THEN <<>> ELSE <<"v", "{", "}">> \o Holes(k - 1)

\* `no newline`
NoNewlineText ==
    <<"n", "o", " ", "n", "e", "w", "l", "i", "n", "e">>

\* fn main() { puts("a"); print("b"); }
PutsPrintSource ==
    InMain(CallText(PutsName, <<Quote(<<"a">>)>>) \o <<" ">>
           \o CallText(PrintName, <<Quote(<<"b">>)>>))

\* fn main() { print("no newline"); }
NoNewlineSource == InMain(CallText(PrintName, <<Quote(NoNewlineText)>>))

\* fn main() { name("v{}...v{}", 1, ..., n); } with k placeholders
FormatSource(name, k, n) ==
    InMain(CallText(name, <<Quote(Holes(k))>> \o Numerals(n)))

\* name(first, 1, ..., n); at top level
CallSource(name, first, n) == CallText(name, <<first>> \o Numerals(n))

\* `let p = `
LetP ==
    <<"l", "e", "t", " ", "p", " ", "=", " ">>

\* let p = Point { f1: 1, ..., fn: n };
StructSource(n) ==
    LetP \o <<"P", "o", "i", "n", "t", " ", "{", " ">>
    \o Joined([i \in 1..n |-> <<"f", Digits[i + 1], ":", " ", Digits[i + 1]>>])
    \o <<" ", "}", ";">>

\* let p = Shape::Circle(1, ..., n);   and, without parentheses,
\* let p = Shape::Circle;
EnumSource(parens, n) ==
    LetP \o <<"S", "h", "a", "p", "e", ":", ":", "C", "i", "r", "c", "l", "e">>
    \o (IF parens THEN <<"(">> \o Joined(Numerals(n)) \o <<")">> ELSE <<>>)
    \o <<";">>

\* let p = x<rest>
VariableSource(rest) == LetP \o <<"x">> \o rest

\* What may follow the identifier of a variable reference.
VariableRests ==
    {<<";">>,
     <<" ", "+", " ", "1", ";">>,
     <<"(", "1", ")", ";">>,
     <<"[", "1", "]", ";">>,
     <<".", "f", ";">>,
     <<" ", "=", "=", " ", "x", ";">>}

\* Texts with a structural violation.
MalformedSources ==
    {\* `fn main() { puts(1) }`
     <<"f", "n", " ", "m", "a", "i", "n", "(", ")", " ", "{", " ", "p", "u",
       "t", "s", "(", "1", ")", " ", "}">>,
     \* `fn main() { let x = ; }`
     <<"f", "n", " ", "m", "a", "i", "n", "(", ")", " ", "{", " ", "l", "e",
       "t", " ", "x", " ", "=", " ", ";", " ", "}">>,
     \* `fn main() { puts(`
     <<"f", "n", " ", "m", "a", "i", "n", "(", ")", " ", "{", " ", "p", "u",
       "t", "s", "(">>,
     \* `fn main( {`
     <<"f", "n", " ", "m", "a", "i", "n", "(", " ", "{">>,
     \* `let x 1;`
     <<"l", "e", "t", " ", "x", " ", "1", ";">>,
     \* `fn main() { x.1; }`
     <<"f", "n", " ", "m", "a", "i", "n", "(", ")", " ", "{", " ", "x", ".",
       "1", ";", " ", "}">>}

StringBodies ==
    {<<"a">>, <<"b">>, <<"{", "a", "}">>, NoNewlineText,
     <<"t", "e", "s", "t">>}
    \cup {Holes(k) : k \in 0..MaxHoles}
\* The string lexemes of the source texts.
StringLexemes == {Quote(body) : body \in StringBodies}

FormatSources ==
    {FormatSource(name, k, n) :
        name \in {PutsName, PrintName}, k \in 1..MaxHoles, n \in 0..MaxArgs}

CallSources ==
    {CallSource(name, first, n) :
        name \in {PutsName, PrintName, FooName},
        first \in {Quote(Holes(1)), Quote(<<"a">>), Quote(<<"{", "a", "}">>),
                   <<"7">>},
        n \in 0..MaxArgs}
    \cup {CallText(name, <<>>) : name \in {PutsName, FooName}}
    \cup {CallText(PutsName, <<<<"7">>, Quote(Holes(1))>>)}

PrimarySources ==
    {StructSource(n) : n \in 0..MaxArgs}
    \cup {EnumSource(parens, n) : parens \in BOOLEAN, n \in 0..MaxArgs}
    \cup {VariableSource(rest) : rest \in VariableRests}

\* The binary operators as written, each with the BinaryOp it stands for and
\* the level that parses it (1: equality ... 4: factor).
OperatorTexts ==
    {<<<<"=", "=">>, "Equal", 1>>, <<<<"!", "=">>, "NotEqual", 1>>,
     <<<<"<">>, "Less", 2>>, <<<<"<", "=">>, "LessEqual", 2>>,
     <<<<">">>, "Greater", 2>>, <<<<">", "=">>, "GreaterEqual", 2>>,
     <<<<"+">>, "Add", 3>>, <<<<"-">>, "Subtract", 3>>,
     <<<<"*">>, "Multiply", 4>>, <<<<"/">>, "Divide", 4>>,
     <<<<"%">>, "Modulo", 4>>}

\* The operands of the three-operand texts: identifiers, or integer literals.
OperandTriples == {<<"a", "b", "c">>, <<"1", "2", "3">>}

\* let p = a <o1> b <o2> c;
PrecedenceSource(operands, o1, o2) ==
    LetP \o <<operands[1], " ">> \o o1[1] \o <<" ", operands[2], " ">>
    \o o2[1] \o <<" ", operands[3], ";">>

PrecedenceSources ==
    {PrecedenceSource(operands, o1, o2) :
        operands \in OperandTriples, o1 \in OperatorTexts, o2 \in OperatorTexts}

\* `{ puts(1); }`
PutsBlock ==
    <<"{", " ">> \o CallText(PutsName, Numerals(1)) \o <<" ", "}">>

\* Conditions, each with the expression it stands for: the first two end in
\* a plain identifier.
ConditionTexts ==
    {<<<<"x">>, Variable("x")>>,
     <<<<"i", " ", "<", " ", "n">>,
       Binary(Variable("i"), "Less", Variable("n"))>>,
     <<<<"1">>, Literal(LitInteger(1))>>,
     <<<<"(", "x", ")">>, Variable("x")>>,
     <<<<"x", " ", "<", " ", "1">>,
       Binary(Variable("x"), "Less", Literal(LitInteger(1)))>>}

\* if <cond> { puts(1); }
IfSource(cond) == <<"i", "f", " ">> \o cond[1] \o <<" ">> \o PutsBlock

\* while <cond> { puts(1); }
WhileSource(cond) ==
    <<"w", "h", "i", "l", "e", " ">> \o cond[1] \o <<" ">> \o PutsBlock

\* if 1 { puts(1); } elif <cond> { puts(1); }
ElifSource(cond) ==
    <<"i", "f", " ", "1", " ">> \o PutsBlock
    \o <<" ", "e", "l", "i", "f", " ">> \o cond[1] \o <<" ">> \o PutsBlock

ConditionSources ==
    {IfSource(cond) : cond \in ConditionTexts}
    \cup {WhileSource(cond) : cond \in ConditionTexts}
    \cup {ElifSource(cond) : cond \in ConditionTexts}

\* Block statements: `{ puts(1); }`, `{ { puts(1); } }`, and the first
\* inside fn main() { ... }
BlockSources ==
    {PutsBlock,
     <<"{", " ">> \o PutsBlock \o <<" ", "}">>,
     InMain(PutsBlock)}

\* `x = 1;`
AssignSource ==
    <<"x", " ", "=", " ", "1", ";">>

\* Assignments: `x = 1;` at top level and inside fn main() { ... }, and
\* `x = ;`, whose right-hand side is missing
AssignmentSources ==
    {AssignSource, InMain(AssignSource), <<"x", " ", "=", " ", ";">>}

\* Texts with a closing brace at top level: `}`, `puts(1); }`,
\* `} puts(1);`, `fn main() { puts(1); } }`
StraySources ==
    {<<"}">>,
     CallText(PutsName, Numerals(1)) \o <<" ", "}">>,
     <<"}", " ">> \o CallText(PutsName, Numerals(1)),
     InMain(CallText(PutsName, Numerals(1))) \o <<" ", "}">>}

\* `test`
TestText ==
    <<"t", "e", "s", "t">>

\* Top-level declarations, each with the statement it stands for:
\* `let x = 123;`, `puts("test");`, `fn main() { puts(1); }`, `{ puts(1); }`
DeclarationTexts ==
    {<<<<"l", "e", "t", " ", "x", " ", "=", " ", "1", "2", "3", ";">>,
       VariableDeclaration("x", Literal(LitInteger(123)))>>,
     <<CallText(PutsName, <<Quote(TestText)>>),
       StmtExpression(Call("puts",
           <<Literal(LitString(Text(Quote(TestText))))>>))>>,
     <<InMain(CallText(PutsName, Numerals(1))),
       StmtFunction(Function("main",
           <<StmtExpression(Call("puts", <<Literal(LitInteger(1))>>))>>))>>,
     <<PutsBlock,
       Block(<<StmtExpression(Call("puts", <<Literal(LitInteger(1))>>))>>)>>}

\* No declaration, one, or two in a row.
DeclarationLists ==
    {<<>>} \cup {<<d>> : d \in DeclarationTexts}
    \cup {<<d, e>> : d \in DeclarationTexts, e \in DeclarationTexts}

\* The texts of the declarations, a space between two.
RECURSIVE ProgramSource(_)
ProgramSource(decls) ==
    IF decls = <<>> THEN <<>>
    ELSE IF Len(decls) = 1 THEN decls[1][1]
    ELSE decls[1][1] \o <<" ">> \o ProgramSource(Tail(decls))

ProgramSources == {ProgramSource(decls) : decls \in DeclarationLists}

\* Texts for the lexer, each with the tokens it stands for.
LexCases ==
    {\* `iffy`
     <<<<"i", "f", "f", "y">>, <<TokIdentifier("iffy")>>>>,
     \* `if fy`
     <<<<"i", "f", " ", "f", "y">>, <<Tok("If"), TokIdentifier("fy")>>>>,
     \* `letx let`
     <<<<"l", "e", "t", "x", " ", "l", "e", "t">>,
       <<TokIdentifier("letx"), Tok("Let")>>>>,
     \* `in1 in`
     <<<<"i", "n", "1", " ", "i", "n">>, <<TokIdentifier("in1"), Tok("In")>>>>,
     \* `>=`
     <<<<">", "=">>, <<Tok("GreaterEqual")>>>>,
     \* `> =`
     <<<<">", " ", "=">>, <<Tok("Greater"), Tok("Equals")>>>>,
     \* `>==`
     <<<<">", "=", "=">>, <<Tok("GreaterEqual"), Tok("Equals")>>>>,
     \* `@`
     <<<<"@">>, <<>>>>,
     \* `a @ b`
     <<<<"a", " ", "@", " ", "b">>, <<TokIdentifier("a"), TokIdentifier("b")>>>>,
     \* `x#=$1`
     <<<<"x", "#", "=", "$", "1">>,
       <<TokIdentifier("x"), Tok("Equals"), TokNumber(1)>>>>,
     \* `fn main() { let x = 1; }`
     <<InMain(<<"l", "e", "t", " ", "x", " ", "=", " ", "1", ";">>),
       <<Tok("Fn"), TokIdentifier("main"), Tok("LeftParen"), Tok("RightParen"),
         Tok("LeftBrace"), Tok("Let"), TokIdentifier("x"), Tok("Equals"),
         TokNumber(1), Tok("Semi"), Tok("RightBrace")>>>>}

LexSources == {case[1] : case \in LexCases}

Sources ==
    {PutsPrintSource, NoNewlineSource} \cup FormatSources \cup CallSources
    \cup PrimarySources \cup MalformedSources \cup PrecedenceSources
    \cup ConditionSources \cup BlockSources \cup AssignmentSources
    \cup StraySources \cup ProgramSources \cup LexSources

----------------------------------------------------------------------------
(* Strings as characters *)

\* The characters of a String the lexer produced: the lexeme it sliced.
Chars(s) == CHOOSE chars \in StringLexemes : Text(chars) = s

\* str::contains
Contains(s, pattern) ==
    LET chars == Chars(s) IN
    \E i \in 1..(Len(chars) - Len(pattern) + 1) :
        SubSeq(chars, i, i + Len(pattern) - 1) = pattern

----------------------------------------------------------------------------
(* Parser (voltage-parser/src/parser.rs) *)

\* Parser { tokens, current }, with `panic` set once a panic!, an .expect()
\* or an index out of bounds has stopped the parse (msg: its message).
ParserNew(tokens) ==
    [tokens |-> tokens, current |-> 0, panic |-> FALSE, msg |-> ""]

is_at_end(p) == p.current >= Len(p.tokens)
current_token(p) == p.tokens[p.current + 1]
\* check compares the discriminants only.
check(p, name) == ~is_at_end(p) /\ current_token(p).tok = name
Advance(p) == [p EXCEPT !.current = @ + 1]
Unwind(p, message) == [p EXCEPT !.panic = TRUE, !.msg = message]

\* What a parsing method returns: the parser it leaves and its value.
Parsed(p, v) == [p |-> p, v |-> v]
NoNode == [kind |-> "None"]
Some(r) == [p |-> r.p, v |-> <<r.v>>]

\* self.consume(&Token::X).expect(message)
Expect(p, name, message) ==
    IF p.panic THEN p
    ELSE IF check(p, name) THEN Advance(p) ELSE Unwind(p, message)

\* self.consume_identifier().expect(message)
ExpectIdentifier(p, message) ==
    IF p.panic THEN Parsed(p, "")
    ELSE IF check(p, "Identifier") THEN Parsed(Advance(p), current_token(p).name)
    ELSE Parsed(Unwind(p, message), "")

\* parse_type: an identifier is consumed whether or not it names a type; the
\* Result is dropped by every caller.
parse_type(p) ==
    IF p.panic THEN p
    ELSE IF is_at_end(p) THEN Unwind(p, "index out of bounds")
    ELSE IF current_token(p).tok = "Identifier" THEN Advance(p) ELSE p

\* LevelTokens with the additive and the multiplicative operators exchanged.
LevelTokensExchanged(level) ==
    CASE level = "equality" -> {"Equal", "NotEqual"}
      [] level = "comparison" -> {"Less", "LessEqual", "Greater", "GreaterEqual"}
      [] level = "term" -> {"Star", "Slash", "Percent"}
      [] level = "factor" -> {"Plus", "Minus"}

\* The binary levels, loosest first, and the level below each.
LevelTokens(level) ==
    CASE level = "equality" -> {"Equal", "NotEqual"}
      [] level = "comparison" -> {"Less", "LessEqual", "Greater", "GreaterEqual"}
      [] level = "term" -> {"Plus", "Minus"}
      [] level = "factor" -> {"Star", "Slash", "Percent"}

OperatorOf(tok) ==
    CASE tok = "Equal" -> "Equal"
      [] tok = "NotEqual" -> "NotEqual"
      [] tok = "Less" -> "Less"
      [] tok = "LessEqual" -> "LessEqual"
      [] tok = "Greater" -> "Greater"
      [] tok = "GreaterEqual" -> "GreaterEqual"
      [] tok = "Plus" -> "Add"
      [] tok = "Minus" -> "Subtract"
      [] tok = "Star" -> "Multiply"
      [] tok = "Slash" -> "Divide"
      [] tok = "Percent" -> "Modulo"

RECURSIVE self(_, _)
RECURSIVE binary_loop(_, _, _)
RECURSIVE call_loop(_, _)
RECURSIVE expression_list(_, _, _, _), struct_fields(_, _)
RECURSIVE block_loop(_, _)
RECURSIVE elif_loop(_, _)

\* expr, then `, expr` while a comma follows; with `trailing`, a comma right
\* before the closing token ends the list.
expression_list(p, close, trailing, acc) ==
    LET e == self("expression", <<p>>)
        seen == Append(acc, e.v)
    IN  IF e.p.panic THEN Parsed(e.p, seen)
        ELSE IF check(e.p, "Comma")
        THEN LET q == Advance(e.p) IN
             IF trailing /\ check(q, close) THEN Parsed(q, seen)
             ELSE expression_list(q, close, trailing, seen)
        ELSE Parsed(e.p, seen)

\* struct_fields with each pair put before the pairs already parsed.
struct_fields_prepend(p, acc) ==
    LET field_name == ExpectIdentifier(p, "Expected field name in struct initialization")
        colon == Expect(field_name.p, "Colon", "Expected ':' in struct initialization")
        field_value == self("expression", <<colon>>)
        fields == <<<<field_name.v, field_value.v>>>> \o acc
    IN  IF field_value.p.panic THEN Parsed(field_value.p, fields)
        ELSE IF check(field_value.p, "Comma")
        THEN LET q == Advance(field_value.p) IN
             IF check(q, "RightBrace") THEN Parsed(q, fields)
             ELSE struct_fields(q, fields)
        ELSE Parsed(field_value.p, fields)

\* name: expr, ... up to the closing brace; a trailing comma is allowed.
struct_fields(p, acc) ==
    LET field_name == ExpectIdentifier(p, "Expected field name in struct initialization")
        colon == Expect(field_name.p, "Colon", "Expected ':' in struct initialization")
        field_value == self("expression", <<colon>>)
        fields == Append(acc, <<field_name.v, field_value.v>>)
    IN  IF field_value.p.panic THEN Parsed(field_value.p, fields)
        ELSE IF check(field_value.p, "Comma")
        THEN LET q == Advance(field_value.p) IN
             IF check(q, "RightBrace") THEN Parsed(q, fields)
             ELSE struct_fields(q, fields)
        ELSE Parsed(field_value.p, fields)

struct_initialization(p, struct_name) ==
    LET open == Expect(p, "LeftBrace", "Expected '{' for struct initialization")
        fields == IF open.panic \/ check(open, "RightBrace")
                  THEN Parsed(open, <<>>) ELSE struct_fields(open, <<>>)
        close == Expect(fields.p, "RightBrace",
                        "Expected '}' after struct initialization")
    IN  Parsed(close, StructInitialization(struct_name, fields.v))

enum_variant_creation(p, enum_name) ==
    LET colons == Expect(p, "DoubleColon", "Expected '::' for enum variant")
        variant_name == ExpectIdentifier(colons, "Expected variant name")
        q == variant_name.p
        values ==
            IF ~q.panic /\ check(q, "LeftParen")
            THEN LET open == Advance(q)
                     args == IF check(open, "RightParen") THEN Parsed(open, <<>>)
                             ELSE expression_list(open, "RightParen", TRUE, <<>>)
                 IN  Parsed(Expect(args.p, "RightParen", "Expected ')'"), args.v)
            ELSE Parsed(q, <<>>)
    IN  Parsed(values.p, EnumVariantCreation(enum_name, variant_name.v, values.v))

primary(p) ==
    IF p.panic THEN Parsed(p, NoNode)
    ELSE IF is_at_end(p) THEN Parsed(Unwind(p, "Unexpected end of input"), NoNode)
    ELSE LET tok == current_token(p).tok IN
    CASE tok = "LeftBracket" ->
           LET open == Advance(p)
               elements == IF check(open, "RightBracket") THEN Parsed(open, <<>>)
                           ELSE expression_list(open, "RightBracket", TRUE, <<>>)
           IN  Parsed(Expect(elements.p, "RightBracket", "Expected ']'"),
                      ArrayLiteral(elements.v))
      [] tok = "LeftParen" ->
           LET expr == self("expression", <<Advance(p)>>)
           IN  Parsed(Expect(expr.p, "RightParen", "Expected ')'"), expr.v)
      [] tok = "Number" ->
           Parsed(Advance(p), Literal(LitInteger(current_token(p).n)))
      [] tok = "String" ->
           Parsed(Advance(p), Literal(LitString(current_token(p).s)))
      [] tok = "Identifier" ->
           LET name == current_token(p).name
               next == IF p.current + 1 < Len(p.tokens)
                       THEN p.tokens[p.current + 2].tok ELSE "EOF"
           IN  CASE name = "true" ->
                      Parsed(Advance(p), Literal(LitBoolean(TRUE)))
                 [] name = "false" ->
                      Parsed(Advance(p), Literal(LitBoolean(FALSE)))
                 [] name \notin {"true", "false"} /\ next = "LeftBrace" ->
                      self("struct_initialization", <<Advance(p), name>>)
                 [] name \notin {"true", "false"} /\ next = "DoubleColon" ->
                      self("enum_variant_creation", <<Advance(p), name>>)
                 [] OTHER -> Parsed(Advance(p), Variable(name))
      [] OTHER ->
           Parsed(Unwind(p, "Expected expression, got " \o tok), NoNode)

\* finish_call with the format string left among the arguments.
finish_call_keep_format(p, callee) ==
    LET arguments == IF check(p, "RightParen") THEN Parsed(p, <<>>)
                     ELSE expression_list(p, "RightParen", FALSE, <<>>)
    IN
    IF arguments.p.panic THEN Parsed(arguments.p, NoNode) ELSE
    LET close == Expect(arguments.p, "RightParen", "Expected ')'")
        args == arguments.v
    IN  IF close.panic THEN Parsed(close, NoNode)
        ELSE IF callee.kind = "Variable"
        THEN IF /\ callee.name \in {"puts", "print"}
                /\ args # <<>>
                /\ args[1].kind = "Literal"
                /\ args[1].value.t = "String"
                /\ Contains(args[1].value.s, <<"{", "}">>)
             THEN Parsed(close, FormatCall(callee.name, args[1].value.s, args))
             ELSE Parsed(close, Call(callee.name, args))
        ELSE Parsed(Unwind(close, "Only variable names can be called (got ..)"),
                    NoNode)

\* The rewrite of puts/print with a leading format string into FormatCall.
finish_call(p, callee) ==
    LET arguments == IF check(p, "RightParen") THEN Parsed(p, <<>>)
                     ELSE expression_list(p, "RightParen", FALSE, <<>>)
    IN
    IF arguments.p.panic THEN Parsed(arguments.p, NoNode) ELSE
    LET close == Expect(arguments.p, "RightParen", "Expected ')'")
        args == arguments.v
    IN  IF close.panic THEN Parsed(close, NoNode)
        ELSE IF callee.kind = "Variable"
        THEN IF /\ callee.name \in {"puts", "print"}
                /\ args # <<>>
                /\ args[1].kind = "Literal"
                /\ args[1].value.t = "String"
                /\ Contains(args[1].value.s, <<"{", "}">>)
             THEN Parsed(close, FormatCall(callee.name, args[1].value.s, Tail(args)))
             ELSE Parsed(close, Call(callee.name, args))
        ELSE Parsed(Unwind(close, "Only variable names can be called (got ..)"),
                    NoNode)

call_loop(p, expr) ==
    IF p.panic THEN Parsed(p, expr)
    ELSE IF check(p, "LeftParen")
    THEN LET r == self("finish_call", <<Advance(p), expr>>)
         IN  call_loop(r.p, r.v)
    ELSE IF check(p, "LeftBracket")
    THEN LET index == self("expression", <<Advance(p)>>)
         IN  call_loop(Expect(index.p, "RightBracket", "Expected ']'"),
                       ArrayAccess(expr, index.v))
    ELSE IF check(p, "Dot")
    THEN LET q == Advance(p) IN
         IF is_at_end(q) THEN Parsed(Unwind(q, "index out of bounds"), expr)
         ELSE IF current_token(q).tok = "Identifier"
         THEN LET named == Advance(q)
                  after == IF check(named, "LeftParen") THEN Advance(named)
                           ELSE named
              IN  call_loop(after, StructFieldAccess(expr, current_token(q).name))
         ELSE Parsed(Unwind(q, "Expected field name after '.'"), expr)
    ELSE Parsed(p, expr)

call(p) == LET expr == self("primary", <<p>>) IN call_loop(expr.p, expr.v)

unary(p) == call(p)

\* The method each binary level calls for its operands.
operand(level) ==
    CASE level = "equality" -> "comparison"
      [] level = "comparison" -> "term"
      [] level = "term" -> "factor"
      [] level = "factor" -> "unary"

\* while self.match_token(one of the level's operators) { right = ...; }
binary_loop(p, expr, level) ==
    IF ~p.panic /\ ~is_at_end(p) /\ current_token(p).tok \in LevelTokens(level)
    THEN LET right == self(operand(level), <<Advance(p)>>)
         IN  binary_loop(right.p,
                         Binary(expr, OperatorOf(current_token(p).tok), right.v),
                         level)
    ELSE Parsed(p, expr)

\* let mut expr = <the left operand>; and the level's loop
binary(expr, level) ==
    IF expr.p.panic THEN expr ELSE binary_loop(expr.p, expr.v, level)

factor(p) == binary(unary(p), "factor")
term(p) == binary(factor(p), "term")
comparison(p) == binary(term(p), "comparison")
equality(p) == binary(comparison(p), "equality")

\* The `=` is consumed and nothing after it.
assignment(p) ==
    LET expr == equality(p) IN
    IF expr.p.panic THEN expr
    ELSE IF check(expr.p, "Equals") THEN Parsed(Advance(expr.p), expr.v)
    ELSE expr

expression(p) == assignment(p)

block_loop(p, statements) ==
    IF ~p.panic /\ ~check(p, "RightBrace") /\ ~is_at_end(p)
    THEN LET stmt == self("declaration", <<p>>) IN
         IF stmt.v = <<>> THEN Parsed(stmt.p, statements)
         ELSE block_loop(stmt.p, Append(statements, stmt.v[1]))
    ELSE Parsed(p, statements)

parse_block_contents(p) ==
    LET statements == block_loop(p, <<>>) IN
    IF statements.p.panic THEN statements
    ELSE Parsed(Expect(statements.p, "RightBrace", "Expected '}'"), statements.v)

\* consume(LeftBrace).unwrap() after statement has matched the `{` already.
block(p) ==
    LET statements == self("parse_block_contents", <<
            Expect(p, "LeftBrace", "unwrap on Err")>>)
    IN  Parsed(statements.p, Block(statements.v))

elif_loop(p, elif_branches) ==
    IF ~p.panic /\ check(p, "Elif")
    THEN LET elif_condition == self("expression", <<Advance(p)>>) IN
         IF elif_condition.p.panic
         THEN Parsed(elif_condition.p, elif_branches) ELSE
         LET elif_body == self("parse_block_contents", <<
                 Expect(elif_condition.p, "LeftBrace",
                        "Expected '{' after elif condition")>>)
         IN
         IF elif_body.p.panic THEN Parsed(elif_body.p, elif_branches)
         ELSE elif_loop(elif_body.p,
                        Append(elif_branches, <<elif_condition.v, elif_body.v>>))
    ELSE Parsed(p, elif_branches)

if_statement(p) ==
    LET condition == self("expression", <<p>>) IN
    IF condition.p.panic THEN Parsed(condition.p, NoNode) ELSE
    LET then_branch == self("parse_block_contents", <<
            Expect(condition.p, "LeftBrace", "Expected '{' after if condition")>>)
    IN
    IF then_branch.p.panic THEN Parsed(then_branch.p, NoNode) ELSE
    LET elif_branches == elif_loop(then_branch.p, <<>>) IN
    IF elif_branches.p.panic THEN Parsed(elif_branches.p, NoNode) ELSE
    LET q == elif_branches.p
        else_branch ==
            IF ~q.panic /\ check(q, "Else")
            THEN Some(self("parse_block_contents", <<
                     Expect(Advance(q), "LeftBrace", "Expected '{' after else")>>))
            ELSE Parsed(q, <<>>)
    IN  Parsed(else_branch.p,
               If(condition.v, then_branch.v, elif_branches.v, else_branch.v))

while_statement(p) ==
    LET condition == self("expression", <<p>>) IN
    IF condition.p.panic THEN Parsed(condition.p, NoNode) ELSE
    LET body == self("parse_block_contents", <<
            Expect(condition.p, "LeftBrace",
                   "Expected '{' after while condition")>>)
    IN  Parsed(body.p, While(condition.v, body.v))

for_statement(p) ==
    LET variable == ExpectIdentifier(p, "Expected variable name in for loop")
        in_token == Expect(variable.p, "In", "Expected 'in' in for loop")
        iterable == self("expression", <<in_token>>)
    IN
    IF iterable.p.panic THEN Parsed(iterable.p, NoNode) ELSE
    LET body == self("parse_block_contents", <<
            Expect(iterable.p, "LeftBrace", "Expected '{' after for loop")>>)
    IN  Parsed(body.p, For(variable.v, iterable.v, body.v))

\* name: type, ... up to the closing parenthesis
RECURSIVE parameters(_)
parameters(p) ==
    LET param_name == ExpectIdentifier(p, "Expected parameter name")
        q == param_name.p
        typed == IF ~q.panic /\ check(q, "Colon") THEN parse_type(Advance(q))
                 ELSE q
    IN  IF ~typed.panic /\ check(typed, "Comma")
        THEN IF check(Advance(typed), "RightParen") THEN Advance(typed)
             ELSE parameters(Advance(typed))
        ELSE typed

function_declaration(p) ==
    LET name == ExpectIdentifier(p, "Expected function name")
        open == Expect(name.p, "LeftParen", "Expected '(' after function name")
        params == IF open.panic \/ check(open, "RightParen") THEN open
                  ELSE parameters(open)
        close == Expect(params, "RightParen", "Expected ')'")
        return_type == IF ~close.panic /\ check(close, "Arrow")
                       THEN parse_type(Advance(close)) ELSE close
        open_body == Expect(return_type, "LeftBrace",
                            "Expected '{' for function body")
    IN
    IF open_body.panic THEN Parsed(open_body, NoNode) ELSE
    LET body == self("parse_block_contents", <<open_body>>)
    IN  Parsed(body.p, StmtFunction(Function(name.v, body.v)))

var_declaration(p) ==
    LET name == ExpectIdentifier(p, "Expected variable name")
        q == name.p
        explicit_type == IF ~q.panic /\ check(q, "Colon")
                         THEN parse_type(Advance(q)) ELSE q
        equals == Expect(explicit_type, "Equals",
                         "Expected '=' after variable name")
        value == self("expression", <<equals>>)
        semi == Expect(value.p, "Semi",
                       "Expected ';' after variable declaration")
    IN  Parsed(semi, VariableDeclaration(name.v, value.v))

statement(p) ==
    IF p.panic \/ check(p, "RightBrace") \/ is_at_end(p) THEN Parsed(p, <<>>)
    ELSE LET tok == current_token(p).tok IN
    CASE tok = "If" -> Some(if_statement(Advance(p)))
      [] tok = "While" -> Some(while_statement(Advance(p)))
      [] tok = "For" -> Some(for_statement(Advance(p)))
      [] tok = "Break" ->
           Parsed(Expect(Advance(p), "Semi", "Expected ';'"), <<Break>>)
      [] tok = "Continue" ->
           Parsed(Expect(Advance(p), "Semi", "Expected ';'"), <<Continue>>)
      [] tok = "Unsafe" ->
           LET body == self("parse_block_contents", <<
                   Expect(Advance(p), "LeftBrace",
                          "Expected '{' after unsafe block")>>)
           IN  Parsed(body.p, <<UnsafeBlock(body.v)>>)
      [] tok = "Import" ->
           LET module_name == ExpectIdentifier(Advance(p),
                                  "Expected module name after import")
               q == module_name.p
           IN  IF ~q.panic /\ check(q, "As")
               THEN LET alias == ExpectIdentifier(Advance(q),
                                     "Expected alias name after 'as'")
                    IN  Parsed(alias.p, <<ImportAs(module_name.v, alias.v)>>)
               ELSE Parsed(q, <<Import(module_name.v)>>)
      [] tok = "LeftBrace" -> Some(block(Advance(p)))
      [] OTHER ->
           LET expr == self("expression", <<p>>) IN
           IF expr.p.panic THEN Parsed(expr.p, <<StmtExpression(expr.v)>>)
           ELSE Parsed(Expect(expr.p, "Semi", "Expected ';'"),
                       <<StmtExpression(expr.v)>>)

declaration(p) ==
    IF p.panic \/ is_at_end(p) \/ check(p, "RightBrace") THEN Parsed(p, <<>>)
    ELSE LET tok == current_token(p).tok IN
    CASE tok = "Fn" -> Some(self("function_declaration", <<Advance(p)>>))
      [] tok = "Let" -> Some(self("var_declaration", <<Advance(p)>>))
      [] OTHER -> self("statement", <<p>>)

\* self.method(args), for the methods through which the grammar recurses.
self(method, args) ==
    CASE method = "unary" -> unary(args[1])
      [] method = "factor" -> factor(args[1])
      [] method = "term" -> term(args[1])
      [] method = "comparison" -> comparison(args[1])
      [] method = "expression" -> expression(args[1])
      [] method = "parse_block_contents" -> parse_block_contents(args[1])
      [] method = "primary" -> primary(args[1])
      [] method = "finish_call" -> finish_call(args[1], args[2])
      [] method = "struct_initialization" -> struct_initialization(args[1], args[2])
      [] method = "enum_variant_creation" -> enum_variant_creation(args[1], args[2])
      [] method = "function_declaration" -> function_declaration(args[1])
      [] method = "var_declaration" -> var_declaration(args[1])
      [] method = "statement" -> statement(args[1])
      [] method = "declaration" -> declaration(args[1])

----------------------------------------------------------------------------
(* Inputs: the ASTs handed to the compiler *)

\* Token::String keeps the quotes of the source text, and Parser::primary
\* copies the token's text into Literal::String.
Quoted(text) == "\"" \o text \o "\""

Atoms ==
    {Literal(LitInteger(1)), Literal(LitString(Quoted("s"))),
     Literal(LitBoolean(TRUE)), Variable("x")}

\* Argument lists: n copies of an atom, n in 0..MaxArgs.
ArgLists == {[i \in 1..n |-> a] : n \in 0..MaxArgs, a \in Atoms}

FieldNames == <<"a", "b", "c", "d", "e", "f", "g", "h">>
FieldLists == {[i \in 1..Len(args) |-> <<FieldNames[i], args[i]>>] : args \in ArgLists}

Callees == {"puts", "print", "f"}
Operators ==
    {"Add", "Subtract", "Multiply", "Divide", "Modulo", "Equal", "NotEqual",
     "Less", "LessEqual", "Greater", "GreaterEqual"}

\* Every Expression variant over atoms.
FlatExpressions ==
    Atoms
    \cup {ExprVariableDeclaration("x", a) : a \in Atoms}
    \cup {Binary(a, o, Variable("y")) : a \in Atoms, o \in Operators}
    \cup {Call(n, args) : n \in Callees, args \in ArgLists}
    \cup {FormatCall(n, Quoted("{}"), args) : n \in Callees, args \in ArgLists}
    \cup {ArrayLiteral(args) : args \in ArgLists}
    \cup {ArrayAccess(a, Literal(LitInteger(0))) : a \in Atoms}
    \cup {ArrayAssignment(Variable("x"), Literal(LitInteger(0)), a) : a \in Atoms}
    \cup {StructDefinition("Point")}
    \cup {StructInitialization("Point", fields) : fields \in FieldLists}
    \cup {StructFieldAccess(a, "a") : a \in Atoms}
    \cup {StructFieldAssignment(Variable("x"), "a", a) : a \in Atoms}
    \cup {EnumVariantCreation("Shape", "Circle", args) : args \in ArgLists}
    \cup {EnumMatch(a) : a \in Atoms}

\* Expressions whose children are themselves compound.
Inner ==
    {Binary(Variable("x"), "Add", Literal(LitInteger(1))),
     Call("puts", <<Variable("x")>>),
     ArrayLiteral(<<Literal(LitInteger(1)), Literal(LitInteger(2))>>),
     StructFieldAccess(Variable("x"), "a")}

NestedExpressions ==
    {Binary(e, "Multiply", f) : e \in Inner, f \in Inner}
    \cup {Call(n, <<e>>) : n \in Callees, e \in Inner}
    \cup {ArrayLiteral(<<e, e>>) : e \in Inner}
    \cup {ArrayAccess(e, e) : e \in Inner}
    \cup {StructFieldAssignment(e, "a", e) : e \in Inner}

ExpressionInputs == FlatExpressions \cup NestedExpressions

Puts(e) == StmtExpression(Call("puts", <<e>>))
Marker(k) == Puts(Literal(LitInteger(k)))

\* Statement lists: n copies of a statement, n in 0..MaxArgs.
Bodies ==
    {[i \in 1..n |-> st] : n \in 0..MaxArgs,
                          st \in {Marker(1), VariableDeclaration("x", Variable("y"))}}

Conditions ==
    {Literal(LitBoolean(TRUE)), Binary(Variable("x"), "Less", Literal(LitInteger(1)))}

\* Every Statement variant.
FlatStatements ==
    {StmtExpression(e) : e \in FlatExpressions}
    \cup {VariableDeclaration("x", e) : e \in Atoms \cup Inner}
    \cup {Block(b) : b \in Bodies}
    \cup {StmtFunction(Function("g", b)) : b \in Bodies}
    \cup {If(c, b, [i \in 1..n |-> <<c, b>>], IF has_else THEN <<b>> ELSE <<>>) :
            c \in Conditions, b \in Bodies, n \in 0..MaxElifs,
            has_else \in BOOLEAN}
    \cup {While(c, b) : c \in Conditions, b \in Bodies}
    \cup {For("x", e, b) : e \in {Variable("xs"), ArrayLiteral(<<>>)}, b \in Bodies}
    \cup {Break, Continue}
    \cup {UnsafeBlock(b) : b \in Bodies}
    \cup {Import("m"), ImportAs("m", "n")}

NestedStatements ==
    {Block(<<st, st>>) : st \in {While(Literal(LitBoolean(TRUE)), <<Break>>),
                                 Block(<<Marker(1)>>),
                                 UnsafeBlock(<<Import("m")>>)}}

StatementInputs == FlatStatements \cup NestedStatements

\* fn main() { let x = a; let y = b; puts("{}", x + y); }
SumProgram(a, b) ==
    Function("main",
        <<VariableDeclaration("x", Literal(LitInteger(a))),
          VariableDeclaration("y", Literal(LitInteger(b))),
          StmtExpression(FormatCall("puts", Quoted("{}"),
              <<Binary(Variable("x"), "Add", Variable("y"))>>))>>)

\* fn main() { if c1 { puts(1); } elif c2 { puts(2); } ... else { puts(0); } }
\* with the Boolean literals conds = <<c1, c2, ...>> as conditions.
IfProgram(conds, has_else) ==
    Function("main",
        <<If(Literal(LitBoolean(conds[1])), <<Marker(1)>>,
             [i \in 1..(Len(conds) - 1) |->
                <<Literal(LitBoolean(conds[i + 1])), <<Marker(i + 1)>>>>],
             IF has_else THEN <<<<Marker(0)>>>> ELSE <<>>)>>)

\* fn main() { while c { puts(1); } }
WhileLiteralProgram(c) ==
    Function("main", <<While(Literal(LitBoolean(c)), <<Marker(1)>>)>>)

\* fn main() { let i = 0; while i < n { puts(i); let i = i + 1; } }
WhileCountProgram(n) ==
    Function("main",
        <<VariableDeclaration("i", Literal(LitInteger(0))),
          While(Binary(Variable("i"), "Less", Literal(LitInteger(n))),
                <<Puts(Variable("i")),
                  VariableDeclaration("i",
                      Binary(Variable("i"), "Add", Literal(LitInteger(1))))>>)>>)

\* fn main() { for x in [1, 2, ..., n] { puts(x); } }
ForProgram(n) ==
    Function("main",
        <<For("x", ArrayLiteral([i \in 1..n |-> Literal(LitInteger(i))]),
              <<Puts(Variable("x"))>>)>>)

\* fn <name>() { <callee>(1, ..., n); }
CallProgram(name, callee, n) ==
    Function(name,
        <<StmtExpression(Call(callee, [i \in 1..n |-> Literal(LitInteger(i))]))>>)

\* fn main() { st } and fn main() { while true { st } } for st = break, continue
JumpProgram(st, in_loop) ==
    Function("main",
        IF in_loop THEN <<While(Literal(LitBoolean(TRUE)), <<st>>)>> ELSE <<st>>)

CondLists == UNION {[1..k -> BOOLEAN] : k \in 1..(MaxElifs + 1)}

FunctionInputs ==
    {SumProgram(a, b) : a \in 1..MaxLit, b \in 1..MaxLit}
    \cup {IfProgram(conds, has_else) : conds \in CondLists, has_else \in BOOLEAN}
    \cup {WhileLiteralProgram(c) : c \in BOOLEAN}
    \cup {WhileCountProgram(n) : n \in 0..MaxLit}
    \cup {ForProgram(n) : n \in 0..MaxArgs}
    \cup {CallProgram("main", "f", n) : n \in 0..MaxArgs}
    \cup {CallProgram("main", "main", 0)}
    \cup {JumpProgram(st, in_loop) : st \in {Break, Continue}, in_loop \in BOOLEAN}
    \cup {Function("main", <<StmtFunction(Function("g", <<>>))>>)}

----------------------------------------------------------------------------
(* Inputs: the (bytecode, constants) pairs handed to load_bytecode directly *)

Values ==
    {Integer(-MaxInt), Integer(0), Integer(MaxInt),
     Integer(IntMin), Integer(-1), Integer(IntMax),
     Float(-2, 1), Float(0, 1), Float(1, 2),
     String("puts"), String("print"), String("s"),
     Boolean(TRUE), Null}

Names == {"x", "y"}

\* The constant pools: up to MaxLoads values.
Pools == UNION {[1..k -> Values] : k \in 0..MaxLoads}

\* The instruction a raw program ends with.
Tested ==
    {Op(o) : o \in BinaryOps \cup {"Print", "Puts", "Return", "Pop", "Dup"}}
    \cup {OpArg("LoadConst", MaxLoads)}
    \cup {OpArg(o, 0) : o \in {"StoreLocal", "LoadLocal", "Jump", "JumpIfFalse",
                              "JumpIfTrue"}}
    \cup {OpArg("Call", n) : n \in 0..2}
    \cup {OpArg("CallBuiltin", id) : id \in 0..2}
    \cup {OpArg(o, name) : o \in {"LoadGlobal", "StoreGlobal"}, name \in Names}

\* LoadConst(0), ..., LoadConst(k - 1), then the tested instruction.
OperandProgram(pool, instruction) ==
    [bytecode |-> [i \in 1..Len(pool) |-> OpArg("LoadConst", i - 1)]
                  \o <<instruction>>,
     constants |-> pool]

\* LoadConst(0), StoreGlobal(stored), LoadGlobal(loaded)
GlobalProgram(value, stored, loaded) ==
    [bytecode |-> <<OpArg("LoadConst", 0), OpArg("StoreGlobal", stored),
                    OpArg("LoadGlobal", loaded)>>,
     constants |-> <<value>>]

RawPrograms ==
    {OperandProgram(pool, instruction) : pool \in Pools, instruction \in Tested}
    \cup {GlobalProgram(value, stored, loaded) :
            value \in Values, stored \in Names, loaded \in Names}

----------------------------------------------------------------------------
(* The state machine *)

NoCompile == [call |-> "none"]

\* The compiler and the machine are used directly: nothing is lexed or parsed.
Init ==
    /\ lexer = [source |-> <<>>, tokens |-> <<>>]
    /\ parser = ParserNew(<<>>)
    /\ parsed = [statements |-> <<>>, end |-> "none", from |-> <<>>]
    /\ compiler = [bytecode |-> <<>>, constants |-> <<>>]
    /\ compiled = NoCompile
    /\ vm = VirtualMachineNew
    /\ status = "new"
    /\ result = <<>>
    /\ stdout = ""
    /\ last = <<>>
    /\ overflow_checks \in BOOLEAN

\* A call of one of the compiler's methods on self = compiler.
Enter(c) == [bytecode |-> c.bytecode, constants |-> c.constants,
             out |-> "", ok |-> TRUE, err |-> ""]

\* What the call leaves in self, and the record of the call.
Leave(method, input, c) ==
    /\ compiler' = [bytecode |-> c.bytecode, constants |-> c.constants]
    /\ compiled' = [call |-> method, input |-> input, ok |-> c.ok, err |-> c.err,
                    bytecode |-> c.bytecode, constants |-> c.constants,
                    out |-> c.out]
    /\ UNCHANGED <<vm, status, result, stdout, last, overflow_checks,
                   lexer, parser, parsed>>

\* compile_expression(expr) on a new BytecodeCompiler
CompileExpression ==
    /\ compiled.call = "none" /\ status = "new"
    /\ \E expr \in ExpressionInputs :
        Leave("compile_expression", expr, compile_expression(Enter(compiler), expr))

\* compile_statement(stmt) on a new BytecodeCompiler
CompileStatement ==
    /\ compiled.call = "none" /\ status = "new"
    /\ \E stmt \in StatementInputs :
        Leave("compile_statement", stmt, compile_statement(Enter(compiler), stmt))

\* compile_function(func) on a new BytecodeCompiler
CompileFunction ==
    /\ compiled.call = "none" /\ status = "new"
    /\ \E func \in FunctionInputs :
        Leave("compile_function", func, compile_function(Enter(compiler), func))

\* Ok((bytecode, constants)) => { vm.load_bytecode(bytecode, constants); vm.run() }
LoadCompiled ==
    /\ compiled.call = "compile_function" /\ compiled.ok /\ status = "new"
    /\ vm' = load_bytecode(vm, compiled.bytecode, compiled.constants)
    /\ status' = "running"
    /\ UNCHANGED <<compiler, compiled, result, stdout, last, overflow_checks,
                   lexer, parser, parsed>>

\* vm.load_bytecode(bytecode, constants); vm.run() on a pair built by hand
LoadRaw ==
    /\ compiled.call = "none" /\ status = "new"
    /\ \E program \in RawPrograms :
        vm' = load_bytecode(vm, program.bytecode, program.constants)
    /\ status' = "running"
    /\ UNCHANGED <<compiler, compiled, result, stdout, last, overflow_checks,
                   lexer, parser, parsed>>

\* One iteration of run's loop: fetch, advance ip, dispatch.
Step ==
    /\ status = "running"
    /\ vm.ip < Len(vm.bytecode)
    /\ LET instruction == vm.bytecode[vm.ip + 1]
           e == Execute([vm EXCEPT !.ip = @ + 1], instruction)
       IN  /\ vm' = e.vm
           /\ stdout' = stdout \o e.out
           /\ status' = CASE e.end = "continue" -> "running"
                          [] e.end = "err" -> "err"
                          [] e.end = "panic" -> "panic"
           /\ result' = IF e.end = "continue" THEN result ELSE <<e.msg>>
           /\ last' = <<[ip |-> vm.ip, instruction |-> instruction,
                         stack |-> vm.stack, globals |-> vm.globals,
                         end |-> e.end, msg |-> e.msg, out |-> e.out,
                         after |-> e.vm.stack, ip_after |-> e.vm.ip]>>
    /\ UNCHANGED <<compiler, compiled, overflow_checks,
                   lexer, parser, parsed>>

\* if self.ip >= self.bytecode.len() { break; } ... Ok(self.stack.pop()...)
Exit ==
    /\ status = "running"
    /\ vm.ip >= Len(vm.bytecode)
    /\ result' = <<RunResult(vm.stack)>>
    /\ vm' = WithStack(vm, pop_value(vm.stack).stack)
    /\ status' = "ok"
    /\ UNCHANGED <<compiler, compiled, stdout, last, overflow_checks,
                   lexer, parser, parsed>>

Next ==
    \/ CompileExpression
    \/ CompileStatement
    \/ CompileFunction
    \/ LoadCompiled
    \/ LoadRaw
    \/ Step
    \/ Exit

Spec == Init /\ [][Next]_vars

----------------------------------------------------------------------------
(* The driver: source text to output (voltage-vm/src/main.rs) *)

\* Lexer::new(source), Parser::new(tokens), and a compiler and a machine
\* not yet used.
DriverInit ==
    /\ \E source \in Sources :
        /\ lexer = LexerNew(source)
        /\ parser = ParserNew(tokenize(LexerNew(source)))
    /\ parsed = [statements |-> <<>>, end |-> "parsing", from |-> <<>>]
    /\ compiler = [bytecode |-> <<>>, constants |-> <<>>]
    /\ compiled = NoCompile
    /\ vm = VirtualMachineNew
    /\ status = "new"
    /\ result = <<>>
    /\ stdout = ""
    /\ last = <<>>
    /\ overflow_checks \in BOOLEAN

\* One iteration of parse's loop: if let Some(stmt) = self.declaration()
ParseDeclaration ==
    /\ parsed.end = "parsing"
    /\ ~is_at_end(parser)
    /\ LET stmt == declaration(parser) IN
        /\ parser' = stmt.p
        /\ parsed' = IF stmt.p.panic
                     THEN [parsed EXCEPT !.end = "panic",
                                         !.from = <<parser.current>>]
                     ELSE [parsed EXCEPT !.statements = @ \o stmt.v,
                                         !.from = <<parser.current>>]
    /\ UNCHANGED <<lexer, compiler, compiled, vm, status, result, stdout, last,
                   overflow_checks>>

\* while !self.is_at_end() ends: parse returns the statements
ParseReturn ==
    /\ parsed.end = "parsing"
    /\ is_at_end(parser)
    /\ parsed' = [parsed EXCEPT !.end = "done"]
    /\ UNCHANGED <<lexer, parser, compiler, compiled, vm, status, result, stdout,
                   last, overflow_checks>>

\* The statements of the AST that are a Function named main.
MainFunctions ==
    {i \in 1..Len(parsed.statements) :
        /\ parsed.statements[i].kind = "Function"
        /\ parsed.statements[i].func.name = "main"}

\* for stmt in ast: the first function named main is compiled.  The lines
\* main itself prints about the compilation and the result are not kept:
\* stdout holds what run writes.
CompileMain ==
    /\ parsed.end = "done" /\ compiled.call = "none" /\ status = "new"
    /\ MainFunctions # {}
    /\ LET func == parsed.statements[
                        CHOOSE i \in MainFunctions :
                            \A j \in MainFunctions : i <= j].func
       IN  Leave("compile_function", func, compile_function(Enter(compiler), func))

DriverNext ==
    \/ ParseDeclaration
    \/ ParseReturn
    \/ CompileMain
    \/ LoadCompiled
    \/ Step
    \/ Exit

DriverSpec == DriverInit /\ [][DriverNext]_vars

----------------------------------------------------------------------------
(* Vocabulary of the properties *)

\* run has returned (or panicked).
Finished == status \in {"ok", "err", "panic"}

\* func was compiled, loaded and run to its end.
Ran(func) ==
    compiled.call = "compile_function" /\ compiled.input = func /\ Finished

\* run has executed an instruction; Executed is the record of the last one.
HasExecuted == Len(last) = 1
Executed == last[1]

\* The operands of the instruction executed last: right on top, left below it.
Right == Executed.stack[Len(Executed.stack)]
Left == Executed.stack[Len(Executed.stack) - 1]
Below(k) == SubSeq(Executed.stack, 1, Len(Executed.stack) - k)

\* The operand-stack effect of one instruction, pushes minus pops, as run
\* executes it (Call: the name and num_args arguments popped, a result pushed).
StackEffect(instruction) ==
    CASE instruction.op \in {"LoadConst", "LoadGlobal"} -> 1
      [] instruction.op \in BinaryOps -> -1
      [] instruction.op \in {"Print", "Puts", "StoreLocal", "StoreGlobal",
                             "Pop", "Return"} -> -1
      [] instruction.op = "Call" -> -instruction.arg
      [] OTHER -> 0

RECURSIVE NetEffectFrom(_, _)
NetEffectFrom(code, i) ==
    IF i > Len(code) THEN 0 ELSE StackEffect(code[i]) + NetEffectFrom(code, i + 1)

NetEffect(code) == NetEffectFrom(code, 1)

\* The text of puts(k) for k = from, ..., to.
RECURSIVE Lines(_, _)
Lines(from, to) ==
    IF from > to THEN "" ELSE ToString(from) \o "\n" \o Lines(from + 1, to)

TypeMismatchMessages ==
    {"Type error: Cannot add non-numeric values",
     "Type error: Cannot subtract non-numeric values",
     "Type error: Cannot multiply non-numeric values",
     "Type error: Cannot divide non-numeric values",
     "Type error: Cannot perform modulo on non-numeric values",
     "Type error: Cannot compare non-numeric values"}

SameNumericVariant(a, b) == BothInteger(a, b) \/ BothFloat(a, b)
IsZero(a) == (a.t = "Integer" /\ a.v = 0) \/ (a.t = "Float" /\ a.n = 0)
IsNegative(a) == (a.t = "Integer" /\ a.v < 0) \/ (a.t = "Float" /\ a.n < 0)

----------------------------------------------------------------------------
(* C1..C10 *)

\* C1: the instructions compile_statement emits for a statement it accepts
\* have a net operand-stack effect of exactly zero.
C1_StatementNetZero ==
    (compiled.call = "compile_statement" /\ compiled.ok)
        => NetEffect(compiled.bytecode) = 0

\* C2: the instructions compile_expression emits for an expression it accepts
\* have a net operand-stack effect of exactly +1.
C2_ExpressionNetOne ==
    (compiled.call = "compile_expression" /\ compiled.ok)
        => NetEffect(compiled.bytecode) = 1

\* C3: `let x = a; let y = b; puts("{}", x + y);`, compiled and run, writes
\* the decimal form of a + b and one newline, and run returns Null.
C3_SumPrinted ==
    \A a \in 1..MaxLit, b \in 1..MaxLit :
        Ran(SumProgram(a, b))
            => /\ status = "ok"
               /\ result = <<Null>>
               /\ stdout = ToString(a + b) \o "\n"

\* The first index whose condition is true, 0 when there is none.
FirstTrue(conds) ==
    IF \E i \in 1..Len(conds) : conds[i]
    THEN CHOOSE i \in 1..Len(conds) : conds[i] /\ \A j \in 1..(i - 1) : ~conds[j]
    ELSE 0

\* C4: a compiled if/elif*/else runs the body of the first branch whose
\* condition is true, or the else body when none is, and no other body.
C4_OneBranchRuns ==
    \A conds \in CondLists, has_else \in BOOLEAN :
        Ran(IfProgram(conds, has_else))
            => /\ status = "ok"
               /\ stdout = IF FirstTrue(conds) > 0
                           THEN Lines(FirstTrue(conds), FirstTrue(conds))
                           ELSE IF has_else THEN Lines(0, 0) ELSE ""

\* C5: a compiled while runs its body once for each time the condition
\* evaluates to true: never when it is false at first, n times for
\* `while i < n` counting i up from 0, and without end for `while true`.
C5_WhileIterates ==
    /\ Ran(WhileLiteralProgram(FALSE)) => (status = "ok" /\ stdout = "")
    /\ ~Ran(WhileLiteralProgram(TRUE))
    /\ \A n \in 0..MaxLit :
        Ran(WhileCountProgram(n)) => (status = "ok" /\ stdout = Lines(0, n - 1))

\* C6: `for x in [1, ..., n] { puts(x); }` runs its body once per element,
\* in index order, with x bound to the element.
C6_ForIterates ==
    \A n \in 0..MaxArgs :
        Ran(ForProgram(n)) => (status = "ok" /\ stdout = Lines(1, n))

\* C7: Call(n) on a user-defined function transfers control to the callee
\* (for a recursive call, to offset 0 of the unit) instead of failing.
C7_CallTransfersControl ==
    (compiled.call = "compile_function" /\ HasExecuted
     /\ Executed.instruction.op = "Call")
        => /\ Executed.end = "continue"
           /\ compiled.input = CallProgram("main", "main", 0) => Executed.ip_after = 0

\* C8: LoadGlobal(name) with name not a key of the global environment makes
\* run return an error and pushes nothing.
C8_LoadGlobalUndefinedErrors ==
    (HasExecuted /\ Executed.instruction.op = "LoadGlobal"
     /\ Executed.instruction.arg \notin DOMAIN Executed.globals)
        => (Executed.end = "err" /\ Executed.after = Executed.stack)

\* C9: Div and Mod with a zero right operand of the left operand's variant
\* return "Division by zero" / "Modulo by zero" whatever the left operand,
\* and push no value.
C9_DivModByZero ==
    (HasExecuted /\ Executed.instruction.op \in {"Div", "Mod"}
     /\ Len(Executed.stack) >= 2 /\ SameNumericVariant(Left, Right)
     /\ IsZero(Right))
        => /\ Executed.end = "err"
           /\ Executed.msg = IF Executed.instruction.op = "Div"
                             THEN "Division by zero" ELSE "Modulo by zero"
           /\ Executed.after = Below(2)

\* A negative Float modulo Float zero was refused.
C9_Witness ==
    /\ HasExecuted /\ Executed.instruction.op = "Mod"
    /\ Len(Executed.stack) >= 2 /\ BothFloat(Left, Right)
    /\ IsNegative(Left) /\ IsZero(Right)
    /\ status = "err" /\ result = <<"Modulo by zero">>

\* C10 as stated: every arithmetic and comparison opcode, Eq and Ne included,
\* returns a type error when its operands are not both Integer or both Float.
C10_TypeMismatchAll ==
    (HasExecuted /\ Executed.instruction.op \in BinaryOps
     /\ Len(Executed.stack) >= 2 /\ ~SameNumericVariant(Left, Right))
        => /\ Executed.end = "err"
           /\ Executed.msg \in TypeMismatchMessages
           /\ Executed.after = Below(2)

\* C10 amended: Add, Sub, Mul, Div, Mod, Lt, Le, Gt and Ge pop right then left
\* and return a type error unless both are Integer or both Float; Eq and Ne
\* pop right then left and push the Boolean of RuntimeValue's equality (never
\* equal across variants) for operands of any variant.
C10_TypeMismatch ==
    (HasExecuted /\ Executed.instruction.op \in BinaryOps)
        => LET op == Executed.instruction.op
               depth == Len(Executed.stack)
           IN  /\ depth = 0 =>
                    /\ Executed.end = "err" /\ Executed.msg = "Stack underflow"
               /\ depth = 1 =>
                    /\ Executed.end = "err" /\ Executed.msg = "Stack underflow"
                    /\ Executed.after = <<>>
               /\ (depth >= 2 /\ op \notin EqualityOps
                   /\ ~SameNumericVariant(Left, Right)) =>
                    /\ Executed.end = "err"
                    /\ Executed.msg \in TypeMismatchMessages
                    /\ Executed.after = Below(2)
               /\ (depth >= 2 /\ op \in EqualityOps) =>
                    /\ Executed.end = "continue"
                    /\ Executed.after[depth - 1].t = "Boolean"
                    /\ Len(Executed.after) = depth - 1
                    /\ Left.t # Right.t =>
                         Executed.after[depth - 1].b = (op = "Ne")
               /\ (depth >= 2 /\ op = "Sub" /\ BothInteger(Left, Right)
                   /\ InRange(Left.v - Right.v)) =>
                    Executed.after = Append(Below(2), Integer(Left.v - Right.v))
               /\ (depth >= 2 /\ op = "Lt" /\ BothInteger(Left, Right)) =>
                    Executed.after = Append(Below(2), Boolean(Left.v < Right.v))

\* Lt on an Integer and a String returned a type error, both operands popped.
C10_Witness ==
    /\ HasExecuted /\ Executed.instruction.op = "Lt"
    /\ Len(Executed.stack) >= 2
    /\ Left.t = "Integer" /\ Right.t = "String"
    /\ status = "err"
    /\ result = <<"Type error: Cannot compare non-numeric values">>
    /\ vm.stack = Below(2)

----------------------------------------------------------------------------
(* C11..C20 *)

\* The number of values an instruction takes off the operand stack.
Pops(instruction) ==
    CASE instruction.op \in BinaryOps -> 2
      [] instruction.op \in {"StoreGlobal", "CallBuiltin", "Pop", "Return"} -> 1
      [] instruction.op = "Call" -> 1 + instruction.arg
      [] OTHER -> 0

\* C11: an instruction that pops more values than the operand stack holds
\* makes run return "Stack underflow"; no pop of an empty stack is ignored.
C11_PopUnderflows ==
    (HasExecuted /\ Len(Executed.stack) < Pops(Executed.instruction))
        => (Executed.end = "err" /\ Executed.msg = "Stack underflow")

\* C12: run ends by returning Ok(value) or Err(message) for every program
\* handed to load_bytecode; it never panics.
C12_NeverPanics == Finished => status \in {"ok", "err"}

\* The exact result of an Integer operation.
Exact(op, a, b) ==
    CASE op = "Add" -> a + b
      [] op = "Sub" -> a - b
      [] op = "Mul" -> a * b
      [] op = "Div" -> TruncDiv(a, b)

\* C13: on Integer operands a (pushed first) and b, Add, Sub and Mul push
\* the two's-complement result of a + b, a - b, a * b, wrapping on overflow,
\* and Div with b # 0 pushes the quotient truncated toward zero.
C13_WrappingArithmetic ==
    (HasExecuted /\ Executed.instruction.op \in {"Add", "Sub", "Mul", "Div"}
     /\ Len(Executed.stack) >= 2 /\ BothInteger(Left, Right)
     /\ (Executed.instruction.op = "Div" => Right.v # 0))
        => /\ Executed.end = "continue"
           /\ Executed.after =
                Append(Below(2),
                       Integer(Wrap(Exact(Executed.instruction.op, Left.v, Right.v))))

\* The string form of a value, as the language defines it.
StringForm(value) ==
    CASE value.t = "Integer" -> ToString(value.v)
      [] value.t = "String" -> value.s
      [] value.t = "Boolean" -> IF value.b THEN "true" ELSE "false"
      [] value.t = "Null" -> "null"
      [] value = Float(-2, 1) -> "-2"
      [] value = Float(0, 1) -> "0"
      [] value = Float(1, 2) -> "0.5"
      [] OTHER -> FloatToString(value)

\* C14: CallBuiltin(0) pops one value, writes its string form and a newline
\* and pushes Null; CallBuiltin(1) does the same without the newline; any
\* other id returns "Unknown builtin function ID: id", writing nothing.
C14_CallBuiltin ==
    (HasExecuted /\ Executed.instruction.op = "CallBuiltin")
        => LET id == Executed.instruction.arg IN
           /\ (id \in {0, 1} /\ Len(Executed.stack) >= 1) =>
                /\ Executed.end = "continue"
                /\ Executed.after = Append(Below(1), Null)
                /\ Executed.out = StringForm(Right)
                                  \o (IF id = 0 THEN "\n" ELSE "")
           /\ id \notin {0, 1} =>
                /\ Executed.end = "err"
                /\ Executed.msg = "Unknown builtin function ID: " \o ToString(id)
                /\ Executed.out = ""
                /\ Executed.after = Executed.stack

\* CallBuiltin(1) on the Float 0.5 wrote "0.5" and left Null in its place.
C14_Witness ==
    /\ HasExecuted /\ Executed.instruction = OpArg("CallBuiltin", 1)
    /\ Len(Executed.stack) >= 1 /\ Right = Float(1, 2)
    /\ stdout = "0.5" /\ status = "running"
    /\ vm.stack = Append(Below(1), Null)

\* C17: compile_function returns an error for a body with break or continue
\* outside every loop; inside a loop each lowers to a Jump.
C17_BreakContinueResolved ==
    \A st \in {Break, Continue} :
        /\ (compiled.call = "compile_function"
            /\ compiled.input = JumpProgram(st, FALSE)) => ~compiled.ok
        /\ (compiled.call = "compile_function"
            /\ compiled.input = JumpProgram(st, TRUE)) =>
                /\ compiled.ok
                /\ \E i \in 1..Len(compiled.bytecode) :
                        compiled.bytecode[i].op = "Jump"

\* The program of the source text was lexed, parsed, compiled and run to
\* the end of run.
RanSource(source) == lexer.source = source /\ Finished

\* C15: compiled from source and run, a main with the body
\* `puts("a"); print("b");` writes exactly a, a newline and b, and one with
\* the body `print("no newline");` writes exactly `no newline`.
C15_LiteralOutput ==
    /\ RanSource(PutsPrintSource) => stdout = "a\nb"
    /\ RanSource(NoNewlineSource) => stdout = "no newline"

\* The text v{}v{}... of k placeholders with the first n of them replaced by
\* the string forms of the arguments 1, ..., n.
RECURSIVE Filled(_, _, _)
Filled(i, k, n) ==
    IF i > k THEN ""
    ELSE "v" \o (IF i <= n THEN ToString(i) ELSE "{}") \o Filled(i + 1, k, n)

\* C16: a puts/print call with a format string of k placeholders and n
\* arguments writes the string with the placeholders replaced left to right
\* by the arguments' string forms, the placeholders beyond n written as {}
\* and the arguments beyond k ignored, for every k >= 1 and n >= 0 (the
\* literal's quotes written or not).
C16_PlaceholdersFilled ==
    \A k \in 1..MaxHoles, n \in 0..MaxArgs :
        /\ RanSource(FormatSource(PutsName, k, n)) =>
                stdout \in {Filled(1, k, n) \o "\n",
                            Quoted(Filled(1, k, n)) \o "\n"}
        /\ RanSource(FormatSource(PrintName, k, n)) =>
                stdout \in {Filled(1, k, n), Quoted(Filled(1, k, n))}

\* C18: Parser::parse never ends in a panic: for a token sequence with a
\* missing expected token, an unexpected end of input or a token that cannot
\* start an expression it returns to its caller.
C18_ParseNeverPanics == parsed.end # "panic"

\* Parser::parse has returned the statements of the source text.
ParsedSource(source) == lexer.source = source /\ parsed.end = "done"

\* The literals 1, ..., n
Ones(n) == [i \in 1..n |-> Literal(LitInteger(i))]

\* What `x<rest>` is with x a plain Variable.
AroundVariable(rest) ==
    CASE rest = <<";">> -> Variable("x")
      [] rest = <<" ", "+", " ", "1", ";">> ->
            Binary(Variable("x"), "Add", Literal(LitInteger(1)))
      [] rest = <<"(", "1", ")", ";">> -> Call("x", Ones(1))
      [] rest = <<"[", "1", "]", ";">> ->
            ArrayAccess(Variable("x"), Literal(LitInteger(1)))
      [] rest = <<".", "f", ";">> -> StructFieldAccess(Variable("x"), "f")
      [] rest = <<" ", "=", "=", " ", "x", ";">> ->
            Binary(Variable("x"), "Equal", Variable("x"))

\* C19: at an identifier in primary position, a following `{` gives a
\* StructInitialization with the name: expr pairs in source order, a
\* following `::` gives an EnumVariantCreation with no values when no
\* parenthesis follows the variant and with the parenthesised arguments
\* otherwise, and any other following token gives a plain Variable.
C19_IdentifierPrimary ==
    /\ lexer.source \in PrimarySources => parsed.end # "panic"
    /\ \A n \in 0..MaxArgs :
        /\ ParsedSource(StructSource(n)) =>
            parsed.statements =
                <<VariableDeclaration("p",
                    StructInitialization("Point",
                        [i \in 1..n |-> <<"f" \o ToString(i),
                                          Literal(LitInteger(i))>>]))>>
        /\ ParsedSource(EnumSource(TRUE, n)) =>
            parsed.statements =
                <<VariableDeclaration("p",
                    EnumVariantCreation("Shape", "Circle", Ones(n)))>>
    /\ ParsedSource(EnumSource(FALSE, 0)) =>
        parsed.statements =
            <<VariableDeclaration("p",
                EnumVariantCreation("Shape", "Circle", <<>>))>>
    /\ \A rest \in VariableRests :
        ParsedSource(VariableSource(rest)) =>
            parsed.statements =
                <<VariableDeclaration("p", AroundVariable(rest))>>

\* `let p = Point { f1: 1, f2: 2 };` was parsed: f1 before f2.
C19_Witness ==
    /\ ParsedSource(StructSource(2))
    /\ parsed.statements[1].value.kind = "StructInitialization"
    /\ parsed.statements[1].value.fields =
            <<<<"f1", Literal(LitInteger(1))>>, <<"f2", Literal(LitInteger(2))>>>>

\* The expression a call's first argument parses to: the Integer 7, or the
\* String of the lexeme, quotes included.
FirstArgument(first) ==
    IF first = <<"7">> THEN Literal(LitInteger(7))
    ELSE Literal(LitString(Text(first)))

\* C20: a call of puts or print whose first argument is a string literal
\* containing {} parses to a FormatCall with that literal as format_string
\* and the remaining arguments, in order, as arguments; every other call of
\* an identifier parses to a Call with all its arguments.
C20_FormatCallRewrite ==
    /\ lexer.source \in CallSources \cup FormatSources => parsed.end # "panic"
    /\ \A name \in {PutsName, PrintName, FooName}, n \in 0..MaxArgs :
        /\ \A first \in {Quote(Holes(1)), Quote(<<"a">>),
                         Quote(<<"{", "a", "}">>), <<"7">>} :
            ParsedSource(CallSource(name, first, n)) =>
                parsed.statements =
                    <<StmtExpression(
                        IF name # FooName /\ first = Quote(Holes(1))
                        THEN FormatCall(Text(name), Text(first), Ones(n))
                        ELSE Call(Text(name),
                                  <<FirstArgument(first)>> \o Ones(n)))>>
        /\ \A k \in 1..MaxHoles :
            (name # FooName /\ ParsedSource(FormatSource(name, k, n))) =>
                parsed.statements =
                    <<StmtFunction(Function("main",
                        <<StmtExpression(
                            FormatCall(Text(name), Text(Quote(Holes(k))),
                                       Ones(n)))>>))>>
    /\ \A name \in {PutsName, FooName} :
        ParsedSource(CallText(name, <<>>)) =>
            parsed.statements = <<StmtExpression(Call(Text(name), <<>>))>>
    /\ ParsedSource(CallText(PutsName, <<<<"7">>, Quote(Holes(1))>>)) =>
        parsed.statements =
            <<StmtExpression(
                Call("puts", <<Literal(LitInteger(7)),
                               Literal(LitString(Quoted("v{}")))>>))>>

\* `puts("v{}", 1, 2);` was parsed to a FormatCall with the arguments 1, 2.
C20_Witness ==
    /\ ParsedSource(CallSource(PutsName, Quote(Holes(1)), 2))
    /\ parsed.statements[1].expr.kind = "FormatCall"
    /\ parsed.statements[1].expr.format_string = Quoted("v{}")
    /\ parsed.statements[1].expr.arguments = Ones(2)

----------------------------------------------------------------------------
(* C21..C30 *)

\* The expression an operand text parses to.
OperandExpression(c) ==
    IF IsDigit(c) THEN Literal(LitInteger(DigitValue(c))) ELSE Variable(c)

\* C21: of two binary operators in a row the tighter one (equality <
\* comparison < additive < multiplicative) takes the operand between them,
\* and two of one level group to the left: a o1 b o2 c parses as
\* o1(a, o2(b, c)) when o2 binds tighter than o1 and as o2(o1(a, b), c)
\* otherwise.
C21_Precedence ==
    /\ lexer.source \in PrecedenceSources => parsed.end # "panic"
    /\ \A operands \in OperandTriples, o1 \in OperatorTexts, o2 \in OperatorTexts :
        ParsedSource(PrecedenceSource(operands, o1, o2)) =>
            LET a == OperandExpression(operands[1])
                b == OperandExpression(operands[2])
                c == OperandExpression(operands[3])
            IN  parsed.statements =
                    <<VariableDeclaration("p",
                        IF o2[3] > o1[3]
                        THEN Binary(a, o1[2], Binary(b, o2[2], c))
                        ELSE Binary(Binary(a, o1[2], b), o2[2], c))>>

\* `let p = a + b * c;` was parsed to Add(a, Multiply(b, c)).
C21_Witness ==
    /\ ParsedSource(PrecedenceSource(<<"a", "b", "c">>,
                                     <<<<"+">>, "Add", 3>>,
                                     <<<<"*">>, "Multiply", 4>>))
    /\ parsed.statements[1].value =
            Binary(Variable("a"), "Add",
                   Binary(Variable("b"), "Multiply", Variable("c")))

\* The statement `puts(1);`
PutsOne == StmtExpression(Call("puts", Ones(1)))

\* C25: an if, elif or while whose condition ends in a plain identifier right
\* before the body's `{` parses to the If/While with that condition and the
\* block as its body; the brace does not start a struct initialization.
C25_BraceAfterIdentifier ==
    \A cond \in ConditionTexts :
        (cond[2].kind = "Variable" \/ (cond[2].kind = "Binary"
                                       /\ cond[2].right.kind = "Variable")) =>
            /\ lexer.source \in {IfSource(cond), WhileSource(cond),
                                 ElifSource(cond)} => parsed.end # "panic"
            /\ ParsedSource(IfSource(cond)) =>
                parsed.statements = <<If(cond[2], <<PutsOne>>, <<>>, <<>>)>>
            /\ ParsedSource(WhileSource(cond)) =>
                parsed.statements = <<While(cond[2], <<PutsOne>>)>>
            /\ ParsedSource(ElifSource(cond)) =>
                parsed.statements =
                    <<If(Literal(LitInteger(1)), <<PutsOne>>,
                         <<<<cond[2], <<PutsOne>>>>>>, <<>>)>>

\* `{ { puts(1); } }`
NestedBlock == <<"{", " ">> \o PutsBlock \o <<" ", "}">>

\* The parse loop has run its first iteration on this source.
FirstParsed(source) ==
    lexer.source = source /\ parsed.from = <<0>> /\ parsed.end # "panic"

\* C26: a block statement `{ declaration* }` parses to a Block holding the
\* enclosed statements in order and consumes exactly the tokens from its `{`
\* through the matching `}`: `{ puts(1); }` is Block([puts(1)]) and
\* `{ { puts(1); } }` is Block([Block([puts(1)])]), with no token left over.
C26_BlockStatement ==
    /\ lexer.source \in BlockSources => parsed.end # "panic"
    /\ FirstParsed(PutsBlock) =>
        /\ parsed.statements = <<Block(<<PutsOne>>)>>
        /\ parser.current = Len(parser.tokens)
    /\ FirstParsed(NestedBlock) =>
        /\ parsed.statements = <<Block(<<Block(<<PutsOne>>)>>)>>
        /\ parser.current = Len(parser.tokens)
    /\ FirstParsed(InMain(PutsBlock)) =>
        /\ parsed.statements[1].kind = "Function"
        /\ parsed.statements[1].func.body = <<Block(<<PutsOne>>)>>
        /\ parser.current = Len(parser.tokens)

\* C27: `target = value;` is accepted: the parser consumes the `=` and the
\* whole right-hand expression, discards it, and yields the expression
\* statement for the target with the cursor after the `;`.
C27_Assignment ==
    /\ lexer.source \in {AssignSource, InMain(AssignSource)} =>
        parsed.end # "panic"
    /\ FirstParsed(AssignSource) =>
        /\ parsed.statements = <<StmtExpression(Variable("x"))>>
        /\ parser.current = Len(parser.tokens)
    /\ FirstParsed(InMain(AssignSource)) =>
        /\ parsed.statements[1].kind = "Function"
        /\ parsed.statements[1].func.body = <<StmtExpression(Variable("x"))>>
        /\ parser.current = Len(parser.tokens)

\* C28: every iteration of parse's top-level loop consumes at least one token
\* or ends the parse, also when the cursor is at a `}` at top level, so parse
\* terminates on every finite token sequence.
C28_ParseProgress ==
    (parsed.from # <<>> /\ parsed.end = "parsing") =>
        parser.current > parsed.from[1]

\* The statements the declarations stand for.
Expected(decls) == [i \in 1..Len(decls) |-> decls[i][2]]

\* C22: a well-formed sequence of n top-level declarations (function
\* declarations, let declarations, statements) parses, with every token
\* consumed, to exactly the n statements in source order: `let x = 123;` and
\* `puts("test");` to one statement each, `fn main() { puts(1); }` to the
\* Function main holding its body.
C22_TopLevelDeclarations ==
    \A decls \in DeclarationLists :
        /\ lexer.source = ProgramSource(decls) => parsed.end # "panic"
        /\ ParsedSource(ProgramSource(decls)) =>
            /\ parsed.statements = Expected(decls)
            /\ parser.current = Len(parser.tokens)

\* The same for the sequences without a block statement.
C22_WithoutBlocks ==
    \A decls \in DeclarationLists :
        (\A i \in 1..Len(decls) : decls[i][2].kind # "Block") =>
            /\ lexer.source = ProgramSource(decls) => parsed.end # "panic"
            /\ ParsedSource(ProgramSource(decls)) =>
                /\ parsed.statements = Expected(decls)
                /\ parser.current = Len(parser.tokens)

\* The names of the Token variants.
TokenNames ==
    {"Fn", "Let", "If", "Else", "Elif", "For", "While", "Break", "Continue",
     "In", "Unsafe", "Import", "As", "Equals", "Colon", "LeftParen",
     "RightParen", "LeftBrace", "RightBrace", "Semi", "Comma", "Arrow",
     "Greater", "GreaterEqual", "Less", "LessEqual", "Equal", "NotEqual",
     "Plus", "Minus", "Star", "Slash", "Percent", "LeftBracket",
     "RightBracket", "Dot", "DoubleColon", "Identifier", "Number", "String"}

\* C23: tokenization completes on every text and gives no more tokens than
\* the text has characters, each a Token; a character that matches no rule is
\* skipped and lexing goes on after it; the tokens are the recognised lexemes
\* in source order, the longest match winning: `iffy` is one Identifier, not
\* If, `>=` is one GreaterEqual, and `x#=$1` is x, =, 1.
C23_LexerTotal ==
    /\ Len(lexer.tokens) <= Len(lexer.source)
    /\ \A i \in 1..Len(lexer.tokens) : lexer.tokens[i].tok \in TokenNames
    /\ \A case \in LexCases : lexer.source = case[1] => lexer.tokens = case[2]

\* `x#=$1` has been tokenized, the two unknown characters left out, and
\* handed on to the parser.
C23_Witness ==
    /\ lexer.source = <<"x", "#", "=", "$", "1">>
    /\ Len(lexer.tokens) = 3
    /\ parsed.from # <<>>

----------------------------------------------------------------------------
(* One BytecodeCompiler used for several functions (compiler.rs 24-38) *)

\* A call is made only while self.bytecode holds at most MaxCarry
\* instructions of earlier calls.
MaxCarry == 8

\* fn main() { f(); g() } with g a nested function: the call is compiled
\* before the nested function is refused.
PartialProgram ==
    Function("main",
        <<StmtExpression(Call("f", <<>>)), StmtFunction(Function("g", <<>>))>>)

SiblingFunctions ==
    {CallProgram("main", "f", n) : n \in 0..1}
    \cup {CallProgram("helper", "f", 0), SumProgram(1, 1), PartialProgram,
          Function("main", <<StmtFunction(Function("g", <<>>))>>),
          Function("empty", <<>>)}

\* compiler.compile_function(&func) on a compiler that earlier calls may
\* have used.
CompileSibling ==
    /\ Len(compiler.bytecode) <= MaxCarry
    /\ \E func \in SiblingFunctions :
        Leave("compile_function", func, compile_function(Enter(compiler), func))

SiblingSpec == Init /\ [][CompileSibling]_vars

\* The Result of compile_function(func) on BytecodeCompiler::new().
FreshCompile(func) == compile_function(Enter(BytecodeCompilerNew), func)

\* C24: a compile_function call returns what a fresh BytecodeCompiler returns
\* for the same function: the same Ok or Err, and on Ok the same instruction
\* sequence and the same constant pool, whatever calls (successful or
\* failed) the compiler served before.
C24_SiblingCompile ==
    compiled.call = "compile_function" =>
        LET fresh == FreshCompile(compiled.input)
        IN  /\ compiled.ok = fresh.ok
            /\ compiled.ok =>
                /\ compiled.bytecode = fresh.bytecode
                /\ compiled.constants = fresh.constants

\* A call that returns Err leaves self.bytecode and self.constants as they
\* were before it.
C24_FailureLeavesNothing ==
    [][(compiled'.call = "compile_function" /\ ~compiled'.ok)
        => compiler' = compiler]_vars

----------------------------------------------------------------------------
(* run as a loop that is never abandoned (vm.rs 99-346) *)

\* run is one thread of control: while an iteration of its loop is possible
\* it is taken, and when the loop breaks the result is returned.
FairSpec == Spec /\ WF_vars(Step) /\ WF_vars(Exit)

\* The instruction executed last was fetched inside the program and left the
\* instruction pointer one past itself.
IpAdvanced ==
    HasExecuted =>
        /\ Executed.ip < Len(vm.bytecode)
        /\ Executed.ip_after = Executed.ip + 1
        /\ Executed.ip_after > Executed.ip

\* The instruction pointer counts the instructions run has executed and never
\* passes the end of the program.
IpInProgram == vm.ip <= Len(vm.bytecode)

----------------------------------------------------------------------------
(* One VirtualMachine used for several programs (vm.rs 93-97, 99-346) *)

\* A program is loaded only while the operand stack holds at most MaxLeft
\* values of earlier runs.
MaxLeft == 2

\* Programs that leave values on the stack (two or three LoadConst before the
\* end, of which run's result pops one), that read the stack they start with
\* (Add, Pop, the empty program), that fail (Jump) and that use a global.
ReusePrograms ==
    {OperandProgram(<<Integer(1), Integer(2)>>, OpArg("LoadConst", 0)),
     OperandProgram(<<Integer(1)>>, OpArg("LoadConst", 0)),
     OperandProgram(<<Integer(1), Integer(2)>>, OpArg("Jump", 0)),
     OperandProgram(<<>>, Op("Add")),
     OperandProgram(<<>>, Op("Pop")),
     OperandProgram(<<>>, OpArg("LoadGlobal", "x")),
     GlobalProgram(Integer(1), "x", "y"),
     [bytecode |-> <<>>, constants |-> <<>>]}

\* vm.load_bytecode(bytecode, constants), on a machine not yet used or one
\* whose last run returned Ok or Err; vm.run() follows.
LoadAgain ==
    /\ status \in {"new", "ok", "err"}
    /\ Len(vm.stack) <= MaxLeft
    /\ \E program \in ReusePrograms :
        vm' = load_bytecode(vm, program.bytecode, program.constants)
    /\ status' = "running"
    /\ UNCHANGED <<compiler, compiled, result, stdout, last, overflow_checks,
                   lexer, parser, parsed>>

ReuseNext ==
    \/ LoadAgain
    \/ Step
    \/ Exit

ReuseSpec == Init /\ [][ReuseNext]_vars

\* C30: a run that follows load_bytecode starts with an empty operand stack,
\* whatever programs the machine ran before and however they ended; so the
\* empty program returns Null and a lone Add returns the stack underflow
\* error, as on a new machine.
C30_RunStartsEmpty ==
    /\ (status = "running" /\ vm.ip = 0) => vm.stack = <<>>
    /\ (status = "ok" /\ vm.bytecode = <<>>) => result = <<Null>>
    /\ (Finished /\ vm.bytecode = <<Op("Add")>>)
        => (status = "err" /\ result = <<"Stack underflow">>)

\* The first conjunct alone: the stack at the start of a run.
C30_StackAtStart == (status = "running" /\ vm.ip = 0) => vm.stack = <<>>

\* The globals of earlier programs are still there when a run starts.
C30_GlobalsCarryOver ==
    [][(status \in {"ok", "err"} /\ status' = "running")
        => vm'.globals = vm.globals]_vars

====
